---- MODULE Spec2Model ----
(***************************************************************************)
(* The drawing relay of src/server/main.py: the versioned action log, the  *)
(* per-origin undo stacks, the connection registry, the fan-out and the    *)
(* periodic reconciliation sweep.  Every coroutine is cut at its awaits:   *)
(* a step runs from the completion of one await to the call of the next.   *)
(***************************************************************************)
EXTENDS Integers, Sequences, FiniteSets, TLC

\* ---------------------------------------------------------------- bounds
MaxCommits == 4
MaxSyncCommits == 1
MaxDrawingsSmall == 2
MaxDrawingsLarge == 16
MaxPointsPerDrawing == 3
ShortStroke == 1
MaxPointCommits == 2

\* ------------------------------------------------------ program constants
DiffThreshold == 10
DeadTimeout == 30

Sessions == {"s1", "s2"}
IPs == {"A", "B"}
TypeOrder == <<"draw", "display">>
ClientTypes == {"draw", "display"}
InVersions == {0, 1}
SyncTypes == {"state_request", "state_version_check"}
None == "-"

\* websocket.client.host of each connection
ClientIp(s) == IF s = "s1" THEN "A" ELSE "B"

\* the {client_type} path parameter each connection asks for
ClientTypeOf(s) == IF s = "s1" THEN "draw" ELSE "display"

VARIABLES
  state_version,       \* ConnectionManager.state_version
  drawing_state,       \* ConnectionManager.drawing_state
  drawings_by_ip,      \* ConnectionManager.drawings_by_ip (a dict: its DOMAIN is the key set)
  max_drawings,        \* ConnectionManager.max_drawings
  active_connections,  \* ConnectionManager.active_connections
  client_versions,     \* ConnectionManager.client_versions (a dict)
  last_ping_times,     \* ConnectionManager.last_ping_times (a dict)
  now,                 \* the event loop's clock
  handler,             \* one websocket_endpoint coroutine per connection
  periodic,            \* the periodic_state_check task
  heartbeat,           \* the start_heartbeat task
  commit_cap,          \* the model stops accepting commits at this version
  call,                \* the application of a pure function: its name, argument and result
  assigned,            \* history: the versions assigned, in commit order
  committed,           \* history: the committed actions, in commit order
  alive,               \* history: the draws neither undone nor cleared
  evicted_upto,        \* history: the newest version pruned by manage_drawing_state
  ev                   \* history: what the last step did

server_vars == <<state_version, drawing_state, drawings_by_ip, max_drawings>>
registry_vars == <<active_connections, client_versions, last_ping_times>>
task_vars == <<handler, periodic, heartbeat>>
history_vars == <<assigned, committed, alive, evicted_upto, ev>>
model_vars == <<commit_cap, call>>
vars == <<server_vars, registry_vars, now, task_vars, model_vars, history_vars>>

\* ---------------------------------------------------------------- helpers
\* no function is being applied
NoCall == [fn |-> "none"]

Last(seq) == seq[Len(seq)]
Front(seq) == SubSeq(seq, 1, Len(seq) - 1)
Elems(seq) == {seq[i] : i \in 1..Len(seq)}

\* dict[k] = v
Put(f, k, v) == [x \in DOMAIN f \cup {k} |-> IF x = k THEN v ELSE f[x]]

\* del dict[k], guarded by "if k in dict"
Drop(f, k) == [x \in DOMAIN f \ {k} |-> f[x]]

\* list.remove(x): drops the first element equal to x
ListRemove(seq, x) ==
  LET i == CHOOSE j \in 1..Len(seq) : seq[j] = x /\ \A k \in 1..(j - 1) : seq[k] # x
  IN  SubSeq(seq, 1, i - 1) \o SubSeq(seq, i + 1, Len(seq))

NoMsg == [type |-> "none", version |-> 0, actions |-> <<>>]
Msg(t, v, a) == [type |-> t, version |-> v, actions |-> a]

\* ------------------------------------------------------------ action log
\* a message dict, with the length of its "points" list
Action(t, v, ip) == [type |-> t, version |-> v, client_ip |-> ip, points |-> 0]
Stroke(v, ip, n) == [type |-> "draw", version |-> v, client_ip |-> ip, points |-> n]
Draw(v, ip) == Stroke(v, ip, ShortStroke)

RECURSIVE TrimStacks(_, _)
\* manage_drawing_state, the loop over removed_drawings
TrimStacks(removed, by) ==
  IF removed = <<>> THEN by
  ELSE LET d == Head(removed)
           ip == d.client_ip
           by1 == IF ip \in DOMAIN by /\ d \in Elems(by[ip])
                  THEN [by EXCEPT ![ip] = ListRemove(@, d)]
                  ELSE by
       IN  TrimStacks(Tail(removed), by1)

manage_drawing_state_DropsNewest(ds, by, max) ==
  IF Len(ds) > max
  THEN LET excess == Len(ds) - max
       IN  [ds |-> SubSeq(ds, 1, max),
            by |-> TrimStacks(SubSeq(ds, max + 1, Len(ds)), by),
            pruned |-> SubSeq(ds, max + 1, Len(ds))]
  ELSE [ds |-> ds, by |-> by, pruned |-> <<>>]

manage_drawing_state_KeepsStacks(ds, by, max) ==
  IF Len(ds) > max
  THEN LET excess == Len(ds) - max
       IN  [ds |-> SubSeq(ds, excess + 1, Len(ds)),
            by |-> by,
            pruned |-> SubSeq(ds, 1, excess)]
  ELSE [ds |-> ds, by |-> by, pruned |-> <<>>]

manage_drawing_state(ds, by, max) ==
  IF Len(ds) > max
  THEN LET excess == Len(ds) - max
       IN  [ds |-> SubSeq(ds, excess + 1, Len(ds)),
            by |-> TrimStacks(SubSeq(ds, 1, excess), by),
            pruned |-> SubSeq(ds, 1, excess)]
  ELSE [ds |-> ds, by |-> by, pruned |-> <<>>]

\* message["version"] = self.state_version: the dict is the one object that
\* was appended last to the log and to its origin's stack
Stamp(seq, m) == IF seq = <<>> THEN seq ELSE [seq EXCEPT ![Len(seq)] = m]

\* broadcast, the "draw" branch up to the version stamp
CommitDraw(ds, by, ver, max, ip, cver, n) ==
  LET m0 == Stroke(cver, ip, n)
      by1 == Put(by, ip, (IF ip \in DOMAIN by THEN by[ip] ELSE <<>>) \o <<m0>>)
      ds1 == Append(ds, m0)
      mg == manage_drawing_state(ds1, by1, max)
      v1 == ver + 1
      m1 == [m0 EXCEPT !.version = v1]
  IN  [ds |-> Stamp(mg.ds, m1),
       by |-> IF ip \in DOMAIN mg.by THEN [mg.by EXCEPT ![ip] = Stamp(@, m1)] ELSE mg.by,
       ver |-> v1,
       msg |-> m1,
       pruned |-> mg.pruned,
       old_list |-> Stamp(ds1, m1)]

CommitClearKeepsVersion(ds, by, ver) ==
  [ds |-> <<>>, by |-> <<>>, ver |-> ver]

CommitClearKeepsStacks(ds, by, ver) ==
  [ds |-> <<>>, by |-> by, ver |-> ver + 1]

\* broadcast, the "clear" branch: drawing_state.clear(),
\* drawings_by_ip.clear(), state_version += 1
CommitClear(ds, by, ver) ==
  [ds |-> <<>>, by |-> <<>>, ver |-> ver + 1]

\* broadcast, the guard of the "undo" branch
CanUndo(by, ip) == ip \in DOMAIN by /\ by[ip] # <<>>

CommitUndoGlobal(ds, by, ver, ip) ==
  [ds |-> IF ds = <<>> THEN ds ELSE Front(ds),
   by |-> [by EXCEPT ![ip] = Front(@)],
   ver |-> ver + 1,
   removed |-> Last(by[ip])]

CommitUndoOldest(ds, by, ver, ip) ==
  LET removed_drawing == Head(by[ip])
  IN  [ds |-> IF removed_drawing \in Elems(ds) THEN ListRemove(ds, removed_drawing) ELSE ds,
       by |-> [by EXCEPT ![ip] = Tail(@)],
       ver |-> ver + 1,
       removed |-> removed_drawing]

\* broadcast, the "undo" branch when the origin's stack is not empty
CommitUndo(ds, by, ver, ip) ==
  LET removed_drawing == Last(by[ip])
  IN  [ds |-> IF removed_drawing \in Elems(ds) THEN ListRemove(ds, removed_drawing) ELSE ds,
       by |-> [by EXCEPT ![ip] = Front(@)],
       ver |-> ver + 1,
       removed |-> removed_drawing]

\* ------------------------------------------------------------ registry
Registered(ac) == UNION {ac[t] : t \in ClientTypes}

\* connect, after websocket.accept()
register(R, c, t) ==
  [ac |-> [R.ac EXCEPT ![ClientTypeOf(c)] = @ \cup {c}],
   cv |-> Put(R.cv, c, 0),
   lp |-> Put(R.lp, c, t)]

\* disconnect, when the connection is in its partition
disconnect(R, c) ==
  [ac |-> [R.ac EXCEPT ![ClientTypeOf(c)] = @ \ {c}],
   cv |-> Drop(R.cv, c),
   lp |-> Drop(R.lp, c)]

RECURSIVE DisconnectSet(_, _)
DisconnectSet(R, F) ==
  IF F = {} THEN R
  ELSE LET c == CHOOSE x \in F : TRUE IN DisconnectSet(disconnect(R, c), F \ {c})

\* "for connection, client_type in failed_connections: self.disconnect(...)":
\* set.remove raises KeyError on a connection that is no longer in its
\* partition; the set is walked in an arbitrary order, so any subset of the
\* connections still present may have been removed before the error
DisconnectFailed(R, F) ==
  IF F \subseteq Registered(R.ac)
  THEN {[R |-> DisconnectSet(R, F), raised |-> FALSE]}
  ELSE {[R |-> DisconnectSet(R, G), raised |-> TRUE] : G \in SUBSET (F \cap Registered(R.ac))}

\* ------------------------------------------------------------ iteration
NoIter == [ti |-> 1, snap |-> {}, visited |-> {}]
StartIter(ac) == [ti |-> 1, snap |-> ac[TypeOrder[1]], visited |-> {}]
NextType(it, ac) ==
  [ti |-> it.ti + 1,
   snap |-> IF it.ti + 1 <= Len(TypeOrder) THEN ac[TypeOrder[it.ti + 1]] ELSE {},
   visited |-> {}]

RECURSIVE SetIterNext(_, _, _)
\* "for client_type in self.active_connections:
\*    for connection in self.active_connections[client_type]:
\*      if connection != exclude:"
\* over the live sets: a set whose size differs from the size it had when its
\* iteration began raises RuntimeError; a member added since may or may not
\* be visited.
SetIterNext(it, ac, exclude) ==
  IF it.ti > Len(TypeOrder) THEN {[kind |-> "end", it |-> it, cur |-> None]}
  ELSE LET live == ac[TypeOrder[it.ti]] IN
       IF Cardinality(live) # Cardinality(it.snap)
       THEN {[kind |-> "error", it |-> it, cur |-> None]}
       ELSE LET must == (live \cap it.snap) \ it.visited
                may == (live \ it.snap) \ it.visited
                visit(c) == LET it1 == [it EXCEPT !.visited = @ \cup {c}]
                            IN  IF c = exclude
                                THEN SetIterNext(it1, ac, exclude)
                                ELSE {[kind |-> "item", it |-> it1, cur |-> c]}
            IN  UNION {visit(c) : c \in must \cup may}
                  \cup (IF must = {} THEN SetIterNext(NextType(it, ac), ac, exclude) ELSE {})

NeedsSyncOnlyAhead(c, cv, ver) == c \in DOMAIN cv /\ cv[c] > ver

\* sync_client_states, the test that selects a connection
NeedsSync(c, cv, ver) == c \in DOMAIN cv /\ cv[c] # ver

RECURSIVE ListIterNext(_, _, _, _)
\* "for client_type in self.active_connections:
\*    for connection in list(self.active_connections[client_type]):
\*      if connection in self.client_versions and ... != self.state_version:"
\* over a copy taken when the loop reaches the client type
ListIterNext(it, ac, cv, ver) ==
  IF it.ti > Len(TypeOrder) THEN {[kind |-> "end", it |-> it, cur |-> None]}
  ELSE LET rest == it.snap \ it.visited IN
       IF rest = {} THEN ListIterNext(NextType(it, ac), ac, cv, ver)
       ELSE UNION {LET it1 == [it EXCEPT !.visited = @ \cup {c}]
                   IN  IF NeedsSync(c, cv, ver)
                       THEN {[kind |-> "item", it |-> it1, cur |-> c]}
                       ELSE ListIterNext(it1, ac, cv, ver) : c \in rest}

\* ------------------------------------------------------------ messages
\* the reconciliation decision of sync_client_states and of the
\* state_request / state_version_check branches
MissingActions(ds, V) == SelectSeq(ds, LAMBDA a : a.version > V)

SyncMsgThresholdInclusive(ds, ver, V) ==
  IF Len(MissingActions(ds, V)) <= DiffThreshold
  THEN Msg("updates", ver, MissingActions(ds, V))
  ELSE Msg("state", ver, ds)

SyncMsg(ds, ver, V) ==
  IF Len(MissingActions(ds, V)) < DiffThreshold
  THEN Msg("updates", ver, MissingActions(ds, V))
  ELSE Msg("state", ver, ds)

IsBinaryAny(m) == TRUE

\* the frames of the fan-out that carry a version (binary_message is set)
IsBinary(m) == m.type \in {"draw", "clear", "undo"}

\* ------------------------------------------------------------ coroutines
IdleHandler(pc) ==
  [pc |-> pc, msg |-> NoMsg, it |-> NoIter, cur |-> None, failed |-> {},
   inflight |-> NoMsg, V |-> 0, live |-> FALSE, frozen |-> <<>>]

IdlePeriodic ==
  [pc |-> "sleep", it |-> NoIter, cur |-> None, inflight |-> NoMsg, V |-> 0,
   failed |-> {}, t |-> 0]

IdleHeartbeat == [pc |-> "sleep", it |-> NoIter, cur |-> None]

\* periodic_state_check, "except Exception as e": the error is logged, the
\* task sleeps and the while loop begins its next iteration
PeriodicLeft == [IdlePeriodic EXCEPT !.pc = "done"]
PeriodicExcept == IdlePeriodic

\* what a step did: the message taken in or the send that completed, the
\* coroutine that ran, and whether the completed send returned
\* history, kept only where rec is set: the versions of the log actions that
\* each connection has submitted or that were in a message handed to a send
\* for it
Handed(e, op, who, to) ==
  IF ~e.rec THEN e.seen
  ELSE [c \in DOMAIN e.seen |->
          e.seen[c]
            \cup (IF c = who /\ op = "draw" THEN {state_version'} ELSE {})
            \cup (IF c = to /\ who \in DOMAIN handler
                  THEN {a.version : a \in Elems(handler'[who].inflight.actions)}
                  ELSE {})]

\* history, kept only where rec is set: the version of the snapshot that
\* connect handed to each connection
Snapped(e, op, who) ==
  IF e.rec /\ op = "connect" THEN [e.snap EXCEPT ![who] = state_version] ELSE e.snap

Event(op, who, fin, ok, to) ==
  [op |-> op, who |-> who, ok |-> ok, rec |-> ev.rec, seen |-> Handed(ev, op, who, to),
   snap |-> Snapped(ev, op, who)]

Reg == [ac |-> active_connections, cv |-> client_versions, lp |-> last_ping_times]

SetReg(R) ==
  /\ active_connections' = R.ac
  /\ client_versions' = R.cv
  /\ last_ping_times' = R.lp

\* websocket_endpoint, "except ...: manager.disconnect(websocket, client_type)":
\* the KeyError of a connection already removed ends the coroutine
HandlerExcept(s, R) ==
  IF s \in Registered(R.ac)
  THEN [h |-> IdleHandler("closed"), R |-> disconnect(R, s), to |-> None, msg |-> NoMsg]
  ELSE [h |-> IdleHandler("crashed"), R |-> R, to |-> None, msg |-> NoMsg]

\* broadcast, the fan-out loop and the removal of the failed connections,
\* from the top of the loop to the next send or to the return
FanOut(s, R, it, failed, m) ==
  UNION {
    CASE o.kind = "item" ->
           {[h |-> [IdleHandler("bcast") EXCEPT !.msg = m, !.it = o.it, !.cur = o.cur,
                                                !.failed = failed, !.inflight = m],
             R |-> R, to |-> o.cur, msg |-> m]}
      [] o.kind = "error" -> {HandlerExcept(s, R)}
      [] OTHER ->
           {IF d.raised THEN HandlerExcept(s, d.R)
            ELSE [h |-> IdleHandler("recv"), R |-> d.R, to |-> None, msg |-> NoMsg]
              : d \in DisconnectFailed(R, failed)}
    : o \in SetIterNext(it, R.ac, s)}

UndoNothingFallsThrough(s, R) ==
  FanOut(s, R, StartIter(R.ac), {}, Msg("undo", 0, <<>>))

\* broadcast, "return  # No drawings to undo, don't broadcast"
UndoNothing(s, R) ==
  {[h |-> IdleHandler("recv"), R |-> R, to |-> None, msg |-> NoMsg]}

\* broadcast_state_update: state_message holds a reference to the list
\* drawing_state and the version read when the dict was built; send_json
\* serialises the list as it is when the send is called
StateMessage(h, ds) == Msg("state", h.msg.version, IF h.live THEN ds ELSE h.frozen)

\* broadcast_state_update, its loop and removal of the failed connections, and
\* then the fan-out of the undo frame
StateUpdate(s, R, it, failed, h, ds) ==
  UNION {
    CASE o.kind = "item" ->
           {[h |-> [h EXCEPT !.pc = "bsu", !.it = o.it, !.cur = o.cur, !.failed = failed,
                             !.inflight = StateMessage(h, ds)],
             R |-> R, to |-> o.cur, msg |-> StateMessage(h, ds)]}
      [] o.kind = "error" -> {HandlerExcept(s, R)}
      [] OTHER ->
           UNION {IF d.raised THEN {HandlerExcept(s, d.R)}
                  ELSE FanOut(s, d.R, StartIter(d.R.ac), {}, h.msg)
                    : d \in DisconnectFailed(R, failed)}
    : o \in SetIterNext(it, R.ac, None)}

\* manage_drawing_state rebinds self.drawing_state to a new list: a
\* state_message built before keeps the old list object
FreezeRefs(hs, pruned, old_list) ==
  [x \in DOMAIN hs |->
     IF pruned # <<>> /\ hs[x].pc = "bsu" /\ hs[x].live
     THEN [hs[x] EXCEPT !.live = FALSE, !.frozen = old_list]
     ELSE hs[x]]

\* remove_dead_connections, the test on last_ping_times
Stale(c, lp, t) == t - (IF c \in DOMAIN lp THEN lp[c] ELSE 0) > DeadTimeout

\* the last entry of the origin in a sequence of draws, dropped
RECURSIVE DropLastOf(_, _)
DropLastOf(seq, ip) ==
  IF seq = <<>> THEN seq
  ELSE IF Last(seq).client_ip = ip THEN Front(seq)
  ELSE Append(DropLastOf(Front(seq), ip), Last(seq))

\* ------------------------------------------------------------------ codec
\* a byte string is a sequence of numbers 0..255; a str is a sequence of
\* characters; a float is a whole number of units
Abs(x) == IF x < 0 THEN -x ELSE x

RECURSIVE Log2(_)
Log2(n) == IF n < 2 THEN 0 ELSE 1 + Log2(n \div 2)

\* struct.pack('!I', n), big-endian
PackU32(n) ==
  <<(n \div 16777216) % 256, (n \div 65536) % 256, (n \div 256) % 256, n % 256>>

\* struct.unpack('!I', b[i:i+4])
UnpackU32(b, i) == ((b[i] * 256 + b[i + 1]) * 256 + b[i + 2]) * 256 + b[i + 3]

\* the IEEE 754 single nearest to x # 0, ties to even: its 24-bit significand
\* and its exponent
Single(x) ==
  LET a == Abs(x)
      e == Log2(a)
  IN  IF e <= 23 THEN [m |-> a * 2^(23 - e), e |-> e]
      ELSE LET sh == e - 23
               q == a \div 2^sh
               r == a % 2^sh
               half == 2^(sh - 1)
               q1 == IF r > half \/ (r = half /\ q % 2 = 1) THEN q + 1 ELSE q
           IN  IF q1 = 16777216 THEN [m |-> 8388608, e |-> e + 1] ELSE [m |-> q1, e |-> e]

\* struct.pack('!f', x): sign, biased exponent and fraction, big-endian
PackF32(x) ==
  IF x = 0 THEN <<0, 0, 0, 0>>
  ELSE LET sg == IF x < 0 THEN 1 ELSE 0
           ex == Single(x).e + 127
           fr == Single(x).m - 8388608
       IN  <<sg * 128 + ex \div 2, (ex % 2) * 128 + fr \div 65536,
             (fr \div 256) % 256, fr % 256>>

\* struct.unpack('!f', b[i:i+4])
UnpackF32(b, i) ==
  LET sg == b[i] \div 128
      ex == (b[i] % 128) * 2 + b[i + 1] \div 128
      fr == (b[i + 1] % 128) * 65536 + b[i + 2] * 256 + b[i + 3]
      e == ex - 127
      m == fr + 8388608
      v == IF e >= 23 THEN m * 2^(e - 23) ELSE m \div 2^(23 - e)
  IN  IF ex = 0 /\ fr = 0 THEN 0 ELSE IF sg = 1 THEN -v ELSE v

LowerHex == <<"0", "1", "2", "3", "4", "5", "6", "7", "8", "9", "a", "b", "c", "d", "e", "f">>
UpperHex == <<"0", "1", "2", "3", "4", "5", "6", "7", "8", "9", "A", "B", "C", "D", "E", "F">>

\* the value of one hexadecimal digit, as int(s, 16) reads it
HexValue(ch) ==
  IF \E i \in 1..16 : LowerHex[i] = ch
  THEN (CHOOSE i \in 1..16 : LowerHex[i] = ch) - 1
  ELSE (CHOOSE i \in 1..16 : UpperHex[i] = ch) - 1

\* str.lstrip('#')
RECURSIVE LStrip(_)
LStrip(str) == IF str # <<>> /\ Head(str) = "#" THEN LStrip(Tail(str)) ELSE str

\* int(s, 16) of a string of hexadecimal digits
RECURSIVE ParseHex(_)
ParseHex(str) ==
  IF str = <<>> THEN 0 ELSE ParseHex(Front(str)) * 16 + HexValue(Last(str))

\* format(n, 'x')
RECURSIVE Hex(_)
Hex(n) == IF n < 16 THEN <<LowerHex[n + 1]>> ELSE Append(Hex(n \div 16), LowerHex[(n % 16) + 1])

\* format(n, '06x')
RECURSIVE ZeroPad(_, _)
ZeroPad(str, width) == IF Len(str) >= width THEN str ELSE ZeroPad(<<"0">> \o str, width)

FormatColorUnpadded(color_int) == <<"#">> \o Hex(color_int)

\* decode_draw_message, f"#{color_int:06x}"
FormatColor(color_int) == <<"#">> \o ZeroPad(Hex(color_int), 6)

RECURSIVE Concat(_)
Concat(seqs) == IF seqs = <<>> THEN <<>> ELSE Head(seqs) \o Concat(Tail(seqs))

\* broadcast, the packing of a draw: header and body
EncodeDraw(version, message) ==
  <<1>> \o PackU32(version) \o PackU32(ParseHex(LStrip(message.color)))
        \o PackF32(message.width) \o PackU32(Len(message.points))
        \o Concat([i \in 1..Len(message.points) |->
                     PackF32(message.points[i].x) \o PackF32(message.points[i].y)])

\* the empty dict
EmptyDict == [type |-> "empty"]

\* decode_draw_message, the test of the length against the header's 5 bytes
TooShortNever(binary_data) == FALSE
TooShort(binary_data) == Len(binary_data) < 5

\* decode_draw_message, struct.unpack of the header, outside the try: given a
\* slice binary_data[:5] of other than 5 bytes it raises struct.error out of
\* the function
HeaderRaises(binary_data) ==
  /\ ~TooShort(binary_data)
  /\ (IF Len(binary_data) < 5 THEN Len(binary_data) ELSE 5) # 5

\* decode_draw_message: a slice that is too short makes struct.unpack raise,
\* which ends in the empty dict
decode_draw_message(binary_data) ==
  IF TooShort(binary_data) THEN EmptyDict
  ELSE LET msg_type == binary_data[1]
           version == UnpackU32(binary_data, 2)
       IN  IF msg_type = 1
           THEN IF Len(binary_data) < 17 THEN EmptyDict
                ELSE LET color_int == UnpackU32(binary_data, 6)
                         width == UnpackF32(binary_data, 10)
                         num_points == UnpackU32(binary_data, 14)
                     IN  IF Len(binary_data) < 17 + 8 * num_points THEN EmptyDict
                         ELSE [type |-> "draw", version |-> version,
                               color |-> FormatColor(color_int), width |-> width,
                               points |-> [i \in 1..num_points |->
                                             [x |-> UnpackF32(binary_data, 10 + 8 * i),
                                              y |-> UnpackF32(binary_data, 14 + 8 * i)]]]
           ELSE IF msg_type = 2 THEN [type |-> "clear", version |-> version]
           ELSE IF msg_type = 3 THEN [type |-> "undo", version |-> version]
           ELSE EmptyDict

\* ---------------------------------------------------------- simplification
\* triangle_area, in units of one half
triangle_area(p1, p2, p3) ==
  Abs(p1.x * (p2.y - p3.y) + p2.x * (p3.y - p1.y) + p3.x * (p1.y - p2.y))

\* the list without its i-th element
DelAt(seq, i) == SubSeq(seq, 1, i - 1) \o SubSeq(seq, i + 1, Len(seq))

MinAreaIndexAny(areas) ==
  CHOOSE i \in 1..Len(areas) :
    /\ \A j \in 1..Len(areas) : areas[i] <= areas[j]
    /\ \A j \in 1..(i - 1) : areas[j] > areas[i]

\* min(range(1, len(points) - 1), key=lambda i: areas[i]): the first of the
\* inner positions with the least area
MinAreaIndex(areas) ==
  CHOOSE i \in 2..(Len(areas) - 1) :
    /\ \A j \in 2..(Len(areas) - 1) : areas[i] <= areas[j]
    /\ \A j \in 2..(i - 1) : areas[j] > areas[i]

\* visvalingam_whyatt, the while loop: min() of an empty range raises
\* ValueError; the list points is changed in place
RECURSIVE RemoveSmallest(_, _, _)
RemoveSmallest(points, areas, num_to_keep) ==
  IF Len(points) <= num_to_keep THEN [raised |-> FALSE, points |-> points]
  ELSE IF Len(points) < 3 THEN [raised |-> TRUE, points |-> points]
  ELSE LET idx == MinAreaIndex(areas)
           p == DelAt(points, idx)
           a0 == DelAt(areas, idx)
           a1 == IF idx > 2
                 THEN [a0 EXCEPT ![idx - 1] = triangle_area(p[idx - 2], p[idx - 1], p[idx])]
                 ELSE a0
           a2 == IF idx < Len(p)
                 THEN [a1 EXCEPT ![idx] = triangle_area(p[idx - 1], p[idx], p[idx + 1])]
                 ELSE a1
       IN  RemoveSmallest(p, a2, num_to_keep)

\* visvalingam_whyatt: what it returns or that it raised, and the list left
\* behind
visvalingam_whyatt(points, num_to_keep) ==
  IF Len(points) <= num_to_keep THEN [raised |-> FALSE, points |-> points]
  ELSE RemoveSmallest(points,
                      [i \in 1..Len(points) |->
                         IF i = 1 \/ i = Len(points) THEN 0
                         ELSE triangle_area(points[i - 1], points[i], points[i + 1])],
                      num_to_keep)

\* a stroke of n points that are not on one line
Zigzag(n) == [i \in 1..n |-> [x |-> i, y |-> i % 2]]

\* the number of points that visvalingam_whyatt leaves of a stroke of n
SimplifiedLength(n, num_to_keep) == Len(visvalingam_whyatt(Zigzag(n), num_to_keep).points)

\* ------------------------------------------- src/main.py, the compression
\* compress_drawing, "(dx1*dx2 + dy1*dy2) / (|d1| * |d2|) < 0.8" on whole
\* coordinates: the cosine of the turn at p2 is below 0.8
SharpTurn(p1, p2, p3) ==
  LET dot == (p2.x - p1.x) * (p3.x - p2.x) + (p2.y - p1.y) * (p3.y - p2.y)
      n1 == (p2.x - p1.x) * (p2.x - p1.x) + (p2.y - p1.y) * (p2.y - p1.y)
      n2 == (p3.x - p2.x) * (p3.x - p2.x) + (p3.y - p2.y) * (p3.y - p2.y)
  IN  dot < 0 \/ 25 * dot * dot < 16 * n1 * n2

\* the divisor of that test is zero: ZeroDivisionError
ZeroLength(p1, p2, p3) == p1 = p2 \/ p2 = p3

\* "if i % step == 0"
KeepsNth(i, step) == i % step = 0

\* compress_drawing, "for i in range(1, len(points) - 1, step)", with i
\* counted from 0 as in the source
RECURSIVE KeepFrom(_, _, _, _)
KeepFrom(points, i, step, acc) ==
  IF i >= Len(points) - 1 THEN [raised |-> FALSE, points |-> acc]
  ELSE IF i > 1 /\ ZeroLength(points[i], points[i + 1], points[i + 2])
       THEN [raised |-> TRUE, points |-> acc]
  ELSE IF i > 1 /\ SharpTurn(points[i], points[i + 1], points[i + 2])
       THEN KeepFrom(points, i + step, step, Append(acc, points[i + 1]))
  ELSE IF KeepsNth(i, step)
       THEN KeepFrom(points, i + step, step, Append(acc, points[i + 1]))
  ELSE KeepFrom(points, i + step, step, acc)

\* compress_drawing: what it returns, or that it raised
compress_drawing(drawing, max_points_per_drawing) ==
  IF drawing.type # "draw" \/ "points" \notin DOMAIN drawing
  THEN [raised |-> FALSE, value |-> drawing]
  ELSE IF Len(drawing.points) <= max_points_per_drawing
  THEN [raised |-> FALSE, value |-> drawing]
  ELSE LET points == drawing.points
           step == (Len(points) \div max_points_per_drawing) + 1
           k == KeepFrom(points, 1, step, <<points[1]>>)
           kept == IF Last(points) # Last(k.points) THEN Append(k.points, Last(points))
                   ELSE k.points
       IN  IF k.raised THEN [raised |-> TRUE, value |-> drawing]
           ELSE [raised |-> FALSE,
                 value |-> [x \in DOMAIN drawing \cup {"compressed"} |->
                              IF x = "points" THEN kept
                              ELSE IF x = "compressed" THEN TRUE
                              ELSE drawing[x]]]

\* check_and_compress_state, the number of points in the draws of the log
RECURSIVE TotalPoints(_)
TotalPoints(ds) ==
  IF ds = <<>> THEN 0
  ELSE TotalPoints(Front(ds))
         + (IF Last(ds).type = "draw" /\ "points" \in DOMAIN Last(ds)
            THEN Len(Last(ds).points) ELSE 0)

\* check_and_compress_state, called at the end of the draw branch: when the
\* interval has passed (due) and the log holds more points than the
\* threshold, every entry is replaced by what compress_drawing returns
check_and_compress_state(ds, cap, threshold, due) ==
  IF due /\ TotalPoints(ds) > threshold
  THEN [raised |-> \E i \in 1..Len(ds) : compress_drawing(ds[i], cap).raised,
        ds |-> [i \in 1..Len(ds) |-> compress_drawing(ds[i], cap).value]]
  ELSE [raised |-> FALSE, ds |-> ds]

\* src/main.py, broadcast, the "draw" branch: the message goes on the stack
\* of its origin as it came, the log gets the message or, for a stroke over
\* the cap, the copy that compress_drawing returns, and only the object in
\* the log is stamped with the version
CompressingCommitDraw(ds, by, ver, cap, threshold, ip, cver, points, due) ==
  LET m0 == Stroke(cver, ip, points)
      by1 == Put(by, ip, (IF ip \in DOMAIN by THEN by[ip] ELSE <<>>) \o <<m0>>)
      over == Len(points) > cap
      c == compress_drawing(m0, cap)
      v1 == ver + 1
      m1 == [(IF over THEN c.value ELSE m0) EXCEPT !.version = v1]
      by2 == IF over THEN by1 ELSE [by1 EXCEPT ![ip] = Stamp(@, m1)]
      pass == check_and_compress_state(Append(ds, m1), cap, threshold, due)
  IN  IF over /\ c.raised
      THEN [raised |-> TRUE, ds |-> ds, by |-> by1, ver |-> ver, msg |-> m0]
      ELSE [raised |-> pass.raised,
            ds |-> IF pass.raised THEN Append(ds, m1) ELSE pass.ds,
            by |-> by2, ver |-> v1, msg |-> m1]

\* ---------------------------------------------------------------- actions
SnapshotAsUpdates(ver, ds) == Msg("updates", ver, ds)

\* connect, the message of its send_json
Snapshot(ver, ds) == Msg("state", ver, ds)

\* websocket_endpoint up to the send of connect: the role is one of the two
\* recognised ones, the connection is accepted and registered, and the
\* snapshot is handed to send_json
Connect(s) ==
  /\ handler[s].pc = "new"
  /\ LET R == register(Reg, s, now)
         m == Snapshot(state_version, drawing_state)
     IN  /\ SetReg(R)
         /\ handler' = [handler EXCEPT ![s] = [IdleHandler("connect") EXCEPT !.cur = s, !.inflight = m]]
         /\ ev' = Event("connect", s, None, TRUE, s)
  /\ UNCHANGED <<server_vars, now, periodic, model_vars, heartbeat, assigned, committed, alive, evicted_upto>>

\* the snapshot send of connect returns or raises; a draw client then
\* broadcasts new-client
ConnectSendDone(s, ok) ==
  /\ handler[s].pc = "connect"
  /\ IF ~ok
     THEN /\ handler' = [handler EXCEPT ![s] = IdleHandler("crashed")]
          /\ ev' = Event("send_done", s, s, FALSE, None)
          /\ UNCHANGED registry_vars
     ELSE IF ClientTypeOf(s) = "draw"
     THEN \E r \in FanOut(s, Reg, StartIter(active_connections), {}, Msg("new-client", 0, <<>>)) :
            /\ handler' = [handler EXCEPT ![s] = r.h]
            /\ SetReg(r.R)
            /\ ev' = Event("send_done", s, s, TRUE, r.to)
     ELSE /\ handler' = [handler EXCEPT ![s] = IdleHandler("recv")]
          /\ ev' = Event("send_done", s, s, TRUE, None)
          /\ UNCHANGED registry_vars
  /\ UNCHANGED <<server_vars, now, periodic, model_vars, heartbeat, assigned, committed, alive, evicted_upto>>

\* a draw message arrives: committed, then the fan-out begins
RecvDraw(s, cver, n) ==
  /\ handler[s].pc = "recv"
  /\ state_version < commit_cap
  /\ LET R0 == [Reg EXCEPT !.lp = Put(@, s, now)]
         c == CommitDraw(drawing_state, drawings_by_ip, state_version, max_drawings,
                         ClientIp(s), cver, n)
     IN  /\ drawing_state' = c.ds
         /\ drawings_by_ip' = c.by
         /\ state_version' = c.ver
         /\ assigned' = Append(assigned, c.ver)
         /\ committed' = Append(committed, c.msg)
         /\ alive' = Append(alive, c.msg)
         /\ evicted_upto' = IF c.pruned # <<>> THEN Last(c.pruned).version ELSE evicted_upto
         /\ \E r \in FanOut(s, R0, StartIter(R0.ac), {}, Msg("draw", c.ver, <<c.msg>>)) :
              /\ handler' = [FreezeRefs(handler, c.pruned, c.old_list) EXCEPT ![s] = r.h]
              /\ SetReg(r.R)
              /\ ev' = Event("draw", s, None, TRUE, r.to)
  /\ UNCHANGED <<max_drawings, now, periodic, model_vars, heartbeat>>

\* a clear message arrives
RecvClear(s) ==
  /\ handler[s].pc = "recv"
  /\ state_version < commit_cap
  /\ LET R0 == [Reg EXCEPT !.lp = Put(@, s, now)]
         c == CommitClear(drawing_state, drawings_by_ip, state_version)
     IN  /\ drawing_state' = c.ds
         /\ drawings_by_ip' = c.by
         /\ state_version' = c.ver
         /\ assigned' = Append(assigned, c.ver)
         /\ committed' = Append(committed, Action("clear", c.ver, None))
         /\ alive' = <<>>
         /\ \E r \in FanOut(s, R0, StartIter(R0.ac), {}, Msg("clear", c.ver, <<>>)) :
              /\ handler' = [handler EXCEPT ![s] = r.h]
              /\ SetReg(r.R)
              /\ ev' = Event("clear", s, None, TRUE, r.to)
  /\ UNCHANGED <<max_drawings, now, periodic, model_vars, heartbeat, evicted_upto>>

\* an undo message arrives: with a drawing of the origin to undo it is
\* committed, broadcast_state_update runs and then the fan-out; with none,
\* broadcast returns
RecvUndo(s) ==
  /\ handler[s].pc = "recv"
  /\ CanUndo(drawings_by_ip, ClientIp(s)) => state_version < commit_cap
  /\ LET R0 == [Reg EXCEPT !.lp = Put(@, s, now)]
         c == CommitUndo(drawing_state, drawings_by_ip, state_version, ClientIp(s))
         h0 == [IdleHandler("bsu") EXCEPT !.msg = Msg("undo", c.ver, <<>>), !.live = TRUE]
     IN  IF CanUndo(drawings_by_ip, ClientIp(s))
         THEN /\ drawing_state' = c.ds
              /\ drawings_by_ip' = c.by
              /\ state_version' = c.ver
              /\ assigned' = Append(assigned, c.ver)
              /\ committed' = Append(committed, Action("undo", c.ver, ClientIp(s)))
              /\ alive' = DropLastOf(alive, ClientIp(s))
              /\ \E r \in StateUpdate(s, R0, StartIter(R0.ac), {}, h0, c.ds) :
                   /\ handler' = [handler EXCEPT ![s] = r.h]
                   /\ SetReg(r.R)
         ELSE /\ \E r \in UndoNothing(s, R0) :
                   /\ handler' = [handler EXCEPT ![s] = r.h]
                   /\ SetReg(r.R)
              /\ UNCHANGED <<drawing_state, drawings_by_ip, state_version, assigned,
                             committed, alive>>
  /\ ev' = Event(IF CanUndo(drawings_by_ip, ClientIp(s)) THEN "undo" ELSE "undo_noop",
                 s, None, TRUE, None)
  /\ UNCHANGED <<max_drawings, now, periodic, model_vars, heartbeat, evicted_upto>>

\* a state_request or state_version_check arrives with current_version = cv
RecvSyncRequest(s, t, cv) ==
  /\ handler[s].pc = "recv"
  /\ last_ping_times' = Put(last_ping_times, s, now)
  /\ IF cv < state_version
     THEN LET m == SyncMsg(drawing_state, state_version, cv)
          IN  /\ handler' = [handler EXCEPT ![s] = [IdleHandler("reply") EXCEPT !.cur = s, !.inflight = m, !.V = cv]]
              /\ ev' = Event("sync_request", s, None, TRUE, s)
     ELSE /\ UNCHANGED handler
          /\ ev' = Event("sync_request", s, None, TRUE, None)
  /\ UNCHANGED <<server_vars, active_connections, client_versions, now, periodic,
                 model_vars, heartbeat, assigned, committed, alive, evicted_upto>>

AcknowledgeAll(cv, c, ver) == [x \in DOMAIN cv \cup {c} |-> ver]

\* "manager.client_versions[websocket] = manager.state_version"
Acknowledge(cv, c, ver) == Put(cv, c, ver)

\* the send of the reconciliation response returns or raises
ReplyDone(s, ok) ==
  /\ handler[s].pc = "reply"
  /\ IF ok
     THEN /\ client_versions' = Acknowledge(client_versions, s, state_version)
          /\ handler' = [handler EXCEPT ![s] = IdleHandler("recv")]
          /\ UNCHANGED <<active_connections, last_ping_times>>
     ELSE LET r == HandlerExcept(s, Reg)
          IN  /\ handler' = [handler EXCEPT ![s] = r.h]
              /\ SetReg(r.R)
  /\ ev' = Event("send_done", s, s, ok, None)
  /\ UNCHANGED <<server_vars, now, periodic, model_vars, heartbeat, assigned, committed, alive, evicted_upto>>

\* a send of the fan-out returns or raises, and the loop goes on
FanSendDone(s, ok) ==
  /\ handler[s].pc = "bcast"
  /\ LET h == handler[s]
         R1 == IF ok /\ IsBinary(h.msg)
               THEN [Reg EXCEPT !.cv = Put(@, h.cur, state_version)]
               ELSE Reg
         failed1 == IF ok THEN h.failed ELSE h.failed \cup {h.cur}
     IN  \E r \in FanOut(s, R1, h.it, failed1, h.msg) :
           /\ handler' = [handler EXCEPT ![s] = r.h]
           /\ SetReg(r.R)
           /\ ev' = Event("send_done", s, h.cur, ok, r.to)
  /\ UNCHANGED <<server_vars, now, periodic, model_vars, heartbeat, assigned, committed, alive, evicted_upto>>

\* a send of broadcast_state_update returns or raises, and the loop goes on
StateUpdateSendDone(s, ok) ==
  /\ handler[s].pc = "bsu"
  /\ LET h == handler[s]
         R1 == IF ok THEN [Reg EXCEPT !.cv = Put(@, h.cur, state_version)] ELSE Reg
         failed1 == IF ok THEN h.failed ELSE h.failed \cup {h.cur}
     IN  \E r \in StateUpdate(s, R1, h.it, failed1, h, drawing_state) :
           /\ handler' = [handler EXCEPT ![s] = r.h]
           /\ SetReg(r.R)
           /\ ev' = Event("send_done", s, h.cur, ok, r.to)
  /\ UNCHANGED <<server_vars, now, periodic, model_vars, heartbeat, assigned, committed, alive, evicted_upto>>

\* decode_draw_message on a frame shorter than the header, with an unknown
\* type tag, or a draw frame shorter than its point count: the empty dict
Undecodable == Msg("empty", 0, <<>>)

\* a binary frame arrives that decode_draw_message turns into {}: no branch
\* of the handler matches and the dict goes to broadcast as it is
RecvUndecodable(s) ==
  /\ handler[s].pc = "recv"
  /\ LET R0 == [Reg EXCEPT !.lp = Put(@, s, now)]
     IN  \E r \in FanOut(s, R0, StartIter(R0.ac), {}, Undecodable) :
           /\ handler' = [handler EXCEPT ![s] = r.h]
           /\ SetReg(r.R)
           /\ ev' = Event("undecodable", s, None, TRUE, r.to)
  /\ UNCHANGED <<server_vars, now, periodic, model_vars, heartbeat, assigned, committed, alive, evicted_upto>>

\* websocket.close(code=1003), "Unsupported data"
CloseUnsupported == 1003

\* path parameters client_type that are neither draw nor display
InvalidRoles == {"viewer", ""}

RejectAfterRegister(s, R, role) ==
  [h |-> [IdleHandler("rejected") EXCEPT !.inflight = [type |-> "close", code |-> CloseUnsupported]],
   R |-> register(R, s, now)]

\* websocket_endpoint, "if client_type not in ['draw', 'display']": the
\* socket is closed and the coroutine returns before manager.connect
Reject(s, R, role) ==
  [h |-> [IdleHandler("rejected") EXCEPT !.inflight = [type |-> "close", code |-> CloseUnsupported]],
   R |-> R]

\* a connection request arrives under a role that is not recognised
ConnectInvalid(s, role) ==
  /\ handler[s].pc = "new"
  /\ role \notin ClientTypes
  /\ LET r == Reject(s, Reg, role)
     IN  /\ handler' = [handler EXCEPT ![s] = r.h]
         /\ SetReg(r.R)
  /\ ev' = Event("reject", s, None, TRUE, None)
  /\ UNCHANGED <<server_vars, now, periodic, model_vars, heartbeat, assigned, committed, alive, evicted_upto>>

\* a ping that carries no timestamp field
NoStamp == -1

\* the timestamp field of a ping
PingStamps == {NoStamp, 5}

ClientPing(ts) == [type |-> "ping", timestamp |-> ts]

PongStampedNow(ts, t) == [type |-> "pong", timestamp |-> t]

\* the answer to a ping: msg.get("timestamp", loop.time())
Pong(ts, t) == [type |-> "pong", timestamp |-> IF ts = NoStamp THEN t ELSE ts]

\* a ping arrives: last_ping_times is written and the pong is handed to
\* send_json
RecvPing(s, ts) ==
  /\ handler[s].pc = "recv"
  /\ last_ping_times' = Put(last_ping_times, s, now)
  /\ handler' = [handler EXCEPT ![s] = [IdleHandler("pong") EXCEPT !.msg = ClientPing(ts), !.cur = s,
                                                                  !.inflight = Pong(ts, now)]]
  /\ ev' = Event("ping", s, None, TRUE, s)
  /\ UNCHANGED <<server_vars, active_connections, client_versions, now, periodic,
                 model_vars, heartbeat, assigned, committed, alive, evicted_upto>>

\* the send of the pong returns or raises
PongSendDone(s, ok) ==
  /\ handler[s].pc = "pong"
  /\ IF ok
     THEN /\ handler' = [handler EXCEPT ![s] = IdleHandler("recv")]
          /\ UNCHANGED registry_vars
     ELSE LET r == HandlerExcept(s, Reg)
          IN  /\ handler' = [handler EXCEPT ![s] = r.h]
              /\ SetReg(r.R)
  /\ ev' = Event("send_done", s, s, ok, None)
  /\ UNCHANGED <<server_vars, now, periodic, model_vars, heartbeat, assigned, committed, alive, evicted_upto>>

\* a pong arrives: only last_ping_times is written
RecvPong(s) ==
  /\ handler[s].pc = "recv"
  /\ last_ping_times' = Put(last_ping_times, s, now)
  /\ ev' = Event("pong", s, None, TRUE, None)
  /\ UNCHANGED <<server_vars, active_connections, client_versions, now, handler, periodic,
                 model_vars, heartbeat, assigned, committed, alive, evicted_upto>>

\* a JSON draw arrives that struct.pack cannot encode (no points, no color,
\* no width, or a color that is not hexadecimal): broadcast has appended it,
\* pruned, counted the version up and stamped it when the packing raises, and
\* the exception ends the handler
RecvUnencodable(s, cver) ==
  /\ handler[s].pc = "recv"
  /\ state_version < commit_cap
  /\ LET R0 == [Reg EXCEPT !.lp = Put(@, s, now)]
         c == CommitDraw(drawing_state, drawings_by_ip, state_version, max_drawings,
                         ClientIp(s), cver, 0)
         r == HandlerExcept(s, R0)
     IN  /\ drawing_state' = c.ds
         /\ drawings_by_ip' = c.by
         /\ state_version' = c.ver
         /\ assigned' = Append(assigned, c.ver)
         /\ committed' = Append(committed, c.msg)
         /\ alive' = Append(alive, c.msg)
         /\ evicted_upto' = IF c.pruned # <<>> THEN Last(c.pruned).version ELSE evicted_upto
         /\ handler' = [FreezeRefs(handler, c.pruned, c.old_list) EXCEPT ![s] = r.h]
         /\ SetReg(r.R)
         /\ ev' = Event("unencodable", s, None, FALSE, None)
  /\ UNCHANGED <<max_drawings, now, periodic, model_vars, heartbeat>>

\* websocket.receive() reports that the peer is gone
Disconnect(s) ==
  /\ handler[s].pc = "recv"
  /\ LET r == HandlerExcept(s, Reg)
     IN  /\ handler' = [handler EXCEPT ![s] = r.h]
         /\ SetReg(r.R)
  /\ ev' = Event("disconnect", s, None, TRUE, None)
  /\ UNCHANGED <<server_vars, now, periodic, model_vars, heartbeat, assigned, committed, alive, evicted_upto>>

\* sync_client_states from the top of its loop to the next send or its end
SyncLoopIn(ac, it, cv, fin, ok) ==
  \E o \in ListIterNext(it, ac, cv, state_version) :
    IF o.kind = "item"
    THEN LET m == SyncMsg(drawing_state, state_version, cv[o.cur])
         IN  /\ periodic' = [IdlePeriodic EXCEPT !.pc = "sync", !.it = o.it, !.cur = o.cur,
                                                 !.inflight = m, !.V = cv[o.cur]]
             /\ ev' = Event("sweep", "periodic", fin, ok, o.cur)
    ELSE /\ periodic' = IdlePeriodic
         /\ ev' = Event("sweep", "periodic", fin, ok, None)

SyncLoop(it, cv, fin, ok) == SyncLoopIn(active_connections, it, cv, fin, ok)

\* periodic_state_check wakes: remove_dead_connections finds no connection
\* to probe, and sync_client_states finds a connection to bring up to date
PeriodicWake ==
  /\ periodic.pc = "sleep"
  /\ \A c \in Registered(active_connections) : ~Stale(c, last_ping_times, now)
  /\ \E c \in Registered(active_connections) : NeedsSync(c, client_versions, state_version)
  /\ SyncLoop(StartIter(active_connections), client_versions, None, TRUE)
  /\ UNCHANGED <<server_vars, registry_vars, now, handler, model_vars, heartbeat, assigned,
                 committed, alive, evicted_upto>>

\* the send of sync_client_states returns or raises, and the loop goes on
SyncSendDone(ok) ==
  /\ periodic.pc = "sync"
  /\ LET cv1 == IF ok THEN Put(client_versions, periodic.cur, state_version)
                ELSE client_versions
     IN  /\ client_versions' = cv1
         /\ SyncLoop(periodic.it, cv1, periodic.cur, ok)
  /\ UNCHANGED <<server_vars, active_connections, last_ping_times, now, handler,
                 model_vars, heartbeat, assigned, committed, alive, evicted_upto>>

RECURSIVE ListIterSel(_, _, _)
\* "for client_type in ...: for connection in list(self.active_connections[client_type]):"
\* over a copy taken when the loop reaches the client type, up to the next
\* connection of the set want
ListIterSel(it, ac, want) ==
  IF it.ti > Len(TypeOrder) THEN {[kind |-> "end", it |-> it, cur |-> None]}
  ELSE LET rest == it.snap \ it.visited IN
       IF rest = {} THEN ListIterSel(NextType(it, ac), ac, want)
       ELSE UNION {LET it1 == [it EXCEPT !.visited = @ \cup {c}]
                   IN  IF c \in want
                       THEN {[kind |-> "item", it |-> it1, cur |-> c]}
                       ELSE ListIterSel(it1, ac, want) : c \in rest}

\* check_connection, the message it sends
Ping == Msg("ping", 0, <<>>)

\* remove_dead_connections from the top of its loop to the next probe; at
\* the end of the loop the failed connections are disconnected, and
\* sync_client_states runs unless disconnect has raised
ProbeLoop(R, it, failed, t, fin, ok) ==
  \E o \in ListIterSel(it, R.ac, {c \in Sessions : Stale(c, R.lp, t)}) :
    IF o.kind = "item"
    THEN /\ periodic' = [IdlePeriodic EXCEPT !.pc = "probe", !.it = o.it, !.cur = o.cur,
                                             !.inflight = Ping, !.failed = failed, !.t = t]
         /\ ev' = Event("probe", "periodic", fin, ok, o.cur)
         /\ SetReg(R)
    ELSE \E d \in DisconnectFailed(R, failed) :
           /\ SetReg(d.R)
           /\ IF d.raised
              THEN /\ periodic' = PeriodicExcept
                   /\ ev' = Event("sweep_raised", "periodic", fin, ok, None)
              ELSE SyncLoopIn(d.R.ac, StartIter(d.R.ac), d.R.cv, fin, ok)

\* periodic_state_check wakes and remove_dead_connections finds a connection
\* to probe
ProbeWake ==
  /\ periodic.pc = "sleep"
  /\ \E c \in Registered(active_connections) : Stale(c, last_ping_times, now)
  /\ ProbeLoop(Reg, StartIter(active_connections), {}, now, None, TRUE)
  /\ UNCHANGED <<server_vars, now, handler, model_vars, heartbeat, assigned, committed,
                 alive, evicted_upto>>

\* the send of check_connection returns or raises, and the loop goes on
ProbeSendDone(ok) ==
  /\ periodic.pc = "probe"
  /\ ProbeLoop(Reg, periodic.it,
               IF ok THEN periodic.failed ELSE periodic.failed \cup {periodic.cur},
               periodic.t, periodic.cur, ok)
  /\ UNCHANGED <<server_vars, now, handler, model_vars, heartbeat, assigned, committed,
                 alive, evicted_upto>>

\* start_heartbeat from the top of its loop to the next send or to the sleep
HeartbeatLoop(it) ==
  \E o \in ListIterSel(it, active_connections, Sessions) :
    heartbeat' = IF o.kind = "item"
                 THEN [pc |-> "beat", it |-> o.it, cur |-> o.cur]
                 ELSE IdleHeartbeat

\* start_heartbeat wakes with a connection to send to
HeartbeatWake ==
  /\ heartbeat.pc = "sleep"
  /\ Registered(active_connections) # {}
  /\ HeartbeatLoop(StartIter(active_connections))
  /\ ev' = Event("heartbeat", "heartbeat", None, TRUE, None)
  /\ UNCHANGED <<server_vars, registry_vars, now, handler, periodic, model_vars,
                 assigned, committed, alive, evicted_upto>>

\* a heartbeat send returns or raises: "except: pass"
HeartbeatSendDone(ok) ==
  /\ heartbeat.pc = "beat"
  /\ HeartbeatLoop(heartbeat.it)
  /\ ev' = Event("heartbeat", "heartbeat", heartbeat.cur, ok, None)
  /\ UNCHANGED <<server_vars, registry_vars, now, handler, periodic, model_vars,
                 assigned, committed, alive, evicted_upto>>

\* the instants of the event loop's clock that matter to the test of
\* remove_dead_connections on a connection last seen at 0
Instants == {0, DeadTimeout, DeadTimeout + 1}

\* time passes
Tick ==
  /\ \E t \in Instants : t > now /\ now' = t
  /\ ev' = Event("tick", None, None, TRUE, None)
  /\ UNCHANGED <<server_vars, registry_vars, task_vars, model_vars, assigned, committed,
                 alive, evicted_upto>>

\* the current_version values a client reports
ReqVersions(ver) == {v \in {0, ver - 2, ver} : v >= 0}

\* ---------------------------------------------------------- specifications
InitTasksOf(S, rec) ==
  /\ active_connections = [t \in ClientTypes |-> {}]
  /\ client_versions = <<>>
  /\ last_ping_times = <<>>
  /\ now = 0
  /\ handler = [s \in S |-> IdleHandler("new")]
  /\ periodic = IdlePeriodic
  /\ heartbeat = IdleHeartbeat
  /\ ev = [op |-> "init", who |-> None, ok |-> TRUE, rec |-> rec,
           seen |-> IF rec THEN [s \in S |-> {}] ELSE <<>>,
           snap |-> IF rec THEN [s \in S |-> 0] ELSE <<>>]

InitTasks == InitTasksOf(Sessions, FALSE)

\* the draws of an earlier run of connections that have all gone since:
\* n draws, all from origin A or alternately from A and B
Prefill(n, pat) ==
  [i \in 1..n |-> Draw(i, IF pat = "AB" /\ i % 2 = 0 THEN "B" ELSE "A")]

StacksOf(ds) ==
  [ip \in {d.client_ip : d \in Elems(ds)} |-> SelectSeq(ds, LAMBDA d : d.client_ip = ip)]

ServerOf(S, rec, max, n, pat, commits) ==
  /\ InitTasksOf(S, rec)
  /\ max_drawings = max
  /\ drawing_state = Prefill(n, pat)
  /\ drawings_by_ip = StacksOf(Prefill(n, pat))
  /\ state_version = n
  /\ commit_cap = n + commits
  /\ assigned = [i \in 1..n |-> i]
  /\ committed = Prefill(n, pat)
  /\ alive = Prefill(n, pat)
  /\ evicted_upto = 0

ServerAt(max, n, pat, commits) == ServerOf(Sessions, FALSE, max, n, pat, commits)

InitServer(max, n, pat, commits) ==
  /\ ServerAt(max, n, pat, commits)
  /\ call = NoCall

\* the server as constructed, with a small or a large max_drawings
Init ==
  \E max \in {MaxDrawingsSmall, MaxDrawingsLarge} : InitServer(max, 0, "A", MaxCommits)

\* the coroutine of one connection, without the sync requests
HandlerStep(s) ==
  \/ Connect(s)
  \/ \E ok \in BOOLEAN : ConnectSendDone(s, ok)
  \/ \E cver \in InVersions : RecvDraw(s, cver, ShortStroke)
  \/ RecvClear(s)
  \/ RecvUndo(s)
  \/ RecvUndecodable(s)
  \/ \E ok \in BOOLEAN : FanSendDone(s, ok)
  \/ \E ok \in BOOLEAN : StateUpdateSendDone(s, ok)
  \/ Disconnect(s)

RequestStep(s) ==
  \/ \E t \in SyncTypes : \E cv \in ReqVersions(state_version) : RecvSyncRequest(s, t, cv)
  \/ \E ok \in BOOLEAN : ReplyDone(s, ok)

PeriodicStep ==
  \/ PeriodicWake
  \/ \E ok \in BOOLEAN : SyncSendDone(ok)

Next == \E s \in Sessions : HandlerStep(s)

Spec == Init /\ [][Next]_vars

\* the relay with the reconciliation: the sync requests and the periodic
\* sweep, on a log that earlier connections have filled
BulkSizes == {7, DiffThreshold - 1, 15}

InitSync ==
  \E n \in BulkSizes : InitServer(MaxDrawingsLarge, n, "AB", MaxSyncCommits)

NextSync ==
  \/ \E s \in Sessions : HandlerStep(s) \/ RequestStep(s)
  \/ PeriodicStep

SpecSync == InitSync /\ [][NextSync]_vars

\* the relay with the periodic sweep, every iteration of the sweep going on
\* and the send to each connection not failing for ever
MaxLiveCommits == 2

InitLive == InitServer(MaxDrawingsLarge, 0, "A", MaxLiveCommits)

NextLive ==
  \/ \E s \in Sessions : HandlerStep(s)
  \/ PeriodicStep

FairSweep ==
  /\ WF_vars(PeriodicWake)
  /\ WF_vars(\E ok \in BOOLEAN : SyncSendDone(ok))
  /\ \A s \in Sessions : SF_vars(periodic.cur = s /\ SyncSendDone(TRUE))

SpecLive == InitLive /\ [][NextLive]_vars /\ FairSweep

\* the strokes of the relay by their length: strokes of fewer points than
\* max_points_per_drawing, of as many, and of more
PointCounts == {ShortStroke, MaxPointsPerDrawing, MaxPointsPerDrawing + 1}

InitPoints == InitServer(MaxDrawingsLarge, 0, "A", MaxPointCommits)

NextPoints ==
  \E s \in Sessions :
    \/ Connect(s)
    \/ \E ok \in BOOLEAN : ConnectSendDone(s, ok)
    \/ \E n \in PointCounts : RecvDraw(s, 0, n)
    \/ \E ok \in BOOLEAN : FanSendDone(s, ok)

SpecPoints == InitPoints /\ [][NextPoints]_vars

\* the relay with its clock and its two background tasks: the liveness
\* sweep with its probes, the reconciliation sweep and the heartbeat
MaxProbeCommits == 1

InitProbe == InitServer(MaxDrawingsLarge, 0, "A", MaxProbeCommits)

NextProbe ==
  \/ \E s \in Sessions :
       \/ Connect(s)
       \/ \E ok \in BOOLEAN : ConnectSendDone(s, ok)
       \/ RecvDraw(s, 0, ShortStroke)
       \/ \E ok \in BOOLEAN : FanSendDone(s, ok)
       \/ Disconnect(s)
  \/ ProbeWake
  \/ \E ok \in BOOLEAN : ProbeSendDone(ok)
  \/ PeriodicStep
  \/ HeartbeatWake
  \/ \E ok \in BOOLEAN : HeartbeatSendDone(ok)
  \/ Tick

FairProbe ==
  /\ WF_vars(ProbeWake)
  /\ WF_vars(\E ok \in BOOLEAN : ProbeSendDone(ok))
  /\ WF_vars(PeriodicStep)

SpecProbe == InitProbe /\ [][NextProbe]_vars /\ FairProbe

\* the handler alone, with the frames that touch no log: a rejected role,
\* ping and pong, and a draw that cannot be packed
MaxFrameCommits == 2

InitFrames == InitServer(MaxDrawingsLarge, 0, "A", MaxFrameCommits)

NextFrames ==
  \E s \in Sessions :
    \/ Connect(s)
    \/ \E role \in InvalidRoles : ConnectInvalid(s, role)
    \/ \E ok \in BOOLEAN : ConnectSendDone(s, ok)
    \/ RecvDraw(s, 0, ShortStroke)
    \/ RecvUnencodable(s, 0)
    \/ \E ts \in PingStamps : RecvPing(s, ts)
    \/ \E ok \in BOOLEAN : PongSendDone(s, ok)
    \/ RecvPong(s)
    \/ \E ok \in BOOLEAN : FanSendDone(s, ok)
    \/ Disconnect(s)

SpecFrames == InitFrames /\ [][NextFrames]_vars

\* the codec alone: a draw is packed as broadcast packs it and the frame,
\* whole or cut short, is decoded by decode_draw_message
CodecVersions == {0, 1, 258, 2147483647}
CodecColors ==
  {<<"#", "f", "f", "0", "0", "0", "0">>, <<"#", "0", "0", "f", "f", "7", "f">>,
   <<"#", "0", "0", "0", "0", "0", "0">>, <<"#", "F", "F", "8", "8", "0", "0">>,
   <<"#", "f", "f", "f">>}
CodecWidths == {1, 3}
CodecPoints ==
  {[x |-> 0, y |-> 0], [x |-> 3, y |-> -5], [x |-> 16777217, y |-> 33554435]}
MaxCodecPoints == 2
CodecStrokes == UNION {[1..n -> CodecPoints] : n \in 0..MaxCodecPoints}
MaxCut == 1

InitCodec ==
  /\ ServerAt(MaxDrawingsLarge, 0, "A", 0)
  /\ call \in {[fn |-> "draw",
                arg |-> [type |-> "draw", version |-> v, color |-> c, width |-> w,
                         points |-> ps]]
                 : v \in CodecVersions, c \in CodecColors, w \in CodecWidths,
                   ps \in CodecStrokes}

PackDraw ==
  /\ call.fn = "draw"
  /\ call' = [fn |-> "frame", arg |-> call.arg,
              ret |-> EncodeDraw(call.arg.version, call.arg)]
  /\ UNCHANGED <<server_vars, registry_vars, now, task_vars, commit_cap, history_vars>>

UnpackFrame(cut) ==
  /\ call.fn = "frame"
  /\ call' = [fn |-> "decoded", arg |-> call.arg, cut |-> cut,
              ret |-> decode_draw_message(SubSeq(call.ret, 1, Len(call.ret) - cut))]
  /\ UNCHANGED <<server_vars, registry_vars, now, task_vars, commit_cap, history_vars>>

NextCodec == PackDraw \/ \E cut \in 0..MaxCut : UnpackFrame(cut)

SpecCodec == InitCodec /\ [][NextCodec]_vars

\* visvalingam_whyatt alone, on every stroke of a few grid points and every
\* small cap
GridPoints == {[x |-> 0, y |-> 0], [x |-> 1, y |-> 0], [x |-> 2, y |-> 1], [x |-> 3, y |-> 3]}
MaxStrokeLen == 5
MaxKeep == 4

InitSimplify ==
  /\ ServerAt(MaxDrawingsLarge, 0, "A", 0)
  /\ call \in {[fn |-> "visvalingam_whyatt", arg |-> [points |-> ps, num_to_keep |-> k]]
                 : ps \in UNION {[1..n -> GridPoints] : n \in 0..MaxStrokeLen},
                   k \in 0..MaxKeep}

Simplify ==
  /\ call.fn = "visvalingam_whyatt"
  /\ call' = [fn |-> "simplified", arg |-> call.arg,
              ret |-> visvalingam_whyatt(call.arg.points, call.arg.num_to_keep)]
  /\ UNCHANGED <<server_vars, registry_vars, now, task_vars, commit_cap, history_vars>>

NextSimplify == Simplify

SpecSimplify == InitSimplify /\ [][NextSimplify]_vars

\* three connections, a draw client and two display clients, that connect
\* and draw, with the history of what each has been handed
Trio == Sessions \cup {"s3"}
MaxTrioCommits == 2

InitTrio ==
  /\ ServerOf(Trio, TRUE, MaxDrawingsLarge, 0, "A", MaxTrioCommits)
  /\ call = NoCall

NextTrio ==
  \E s \in Trio :
    \/ Connect(s)
    \/ \E ok \in BOOLEAN : ConnectSendDone(s, ok)
    \/ RecvDraw(s, 0, ShortStroke)
    \/ \E ok \in BOOLEAN : FanSendDone(s, ok)

SpecTrio == InitTrio /\ [][NextTrio]_vars

\* connections that join a server whose log is empty or holds one draw, with
\* the reconciliation sweep and the history of the snapshots
FreshSizes == {0, 1}
MaxFreshCommits == 1

InitFresh ==
  \E n \in FreshSizes :
    /\ ServerOf(Sessions, TRUE, MaxDrawingsLarge, n, "A", MaxFreshCommits)
    /\ call = NoCall

NextFresh ==
  \/ \E s \in Sessions :
       \/ Connect(s)
       \/ \E ok \in BOOLEAN : ConnectSendDone(s, ok)
       \/ RecvDraw(s, 0, ShortStroke)
       \/ \E ok \in BOOLEAN : FanSendDone(s, ok)
       \/ Disconnect(s)
  \/ PeriodicStep

SpecFresh == InitFresh /\ [][NextFresh]_vars

\* compress_drawing alone, on strokes of a few grid points and small caps,
\* and on an action that is not a draw
CornerPoints == {[x |-> 0, y |-> 0], [x |-> 1, y |-> 0], [x |-> 1, y |-> 1]}
MaxCompressLen == 7
MaxCompressCap == 3

InitCompress ==
  /\ ServerAt(MaxDrawingsLarge, 0, "A", 0)
  /\ call \in {[fn |-> "compress_drawing", arg |-> [drawing |-> d, cap |-> k]]
                 : d \in {[type |-> "draw", points |-> ps]
                            : ps \in UNION {[1..n -> CornerPoints] : n \in 0..MaxCompressLen}}
                          \cup {[type |-> "clear"], [type |-> "draw"]},
                   k \in 2..MaxCompressCap}

Compress ==
  /\ call.fn = "compress_drawing"
  /\ call' = [fn |-> "compressed", arg |-> call.arg,
              ret |-> compress_drawing(call.arg.drawing, call.arg.cap)]
  /\ UNCHANGED <<server_vars, registry_vars, now, task_vars, commit_cap, history_vars>>

NextCompress == Compress

SpecCompress == InitCompress /\ [][NextCompress]_vars

\* src/main.py: the relay that compresses, with a cap of 2 points for the
\* source's 1000 and a threshold of 4 points for the source's 5000
CompressCap == 2
CompressThreshold == 4
MaxCompressCommits == 3

\* a stroke within the cap, a stroke over the cap with a corner, and a
\* stroke of a pointer that rests
CompressStrokes ==
  {<<[x |-> 0, y |-> 0], [x |-> 1, y |-> 0]>>,
   <<[x |-> 0, y |-> 0], [x |-> 1, y |-> 0], [x |-> 1, y |-> 1]>>,
   [i \in 1..7 |-> [x |-> 0, y |-> 0]]}

\* a draw message arrives at the relay of src/main.py
CompressingRecvDraw(s, points, due) ==
  /\ handler[s].pc = "recv"
  /\ state_version < commit_cap
  /\ LET R0 == [Reg EXCEPT !.lp = Put(@, s, now)]
         c == CompressingCommitDraw(drawing_state, drawings_by_ip, state_version, CompressCap,
                                    CompressThreshold, ClientIp(s), 0, points, due)
     IN  /\ drawing_state' = c.ds
         /\ drawings_by_ip' = c.by
         /\ state_version' = c.ver
         /\ assigned' = IF c.ver # state_version THEN Append(assigned, c.ver) ELSE assigned
         /\ committed' = IF c.ver # state_version THEN Append(committed, c.msg) ELSE committed
         /\ alive' = IF c.ver # state_version THEN Append(alive, c.msg) ELSE alive
         /\ IF c.raised
            THEN LET r == HandlerExcept(s, R0)
                 IN  /\ handler' = [handler EXCEPT ![s] = r.h]
                     /\ SetReg(r.R)
                     /\ ev' = Event("draw_raised", s, None, FALSE, None)
            ELSE \E r \in FanOut(s, R0, StartIter(R0.ac), {}, Msg("draw", c.ver, <<c.msg>>)) :
                   /\ handler' = [handler EXCEPT ![s] = r.h]
                   /\ SetReg(r.R)
                   /\ ev' = Event("draw", s, None, TRUE, r.to)
  /\ UNCHANGED <<max_drawings, now, periodic, model_vars, heartbeat, evicted_upto>>

\* an undo message arrives at the relay of src/main.py: with a drawing of
\* the origin on its stack it is committed and fanned out; with none,
\* broadcast returns
CompressingRecvUndo(s) ==
  /\ handler[s].pc = "recv"
  /\ CanUndo(drawings_by_ip, ClientIp(s)) => state_version < commit_cap
  /\ LET R0 == [Reg EXCEPT !.lp = Put(@, s, now)]
         c == CommitUndo(drawing_state, drawings_by_ip, state_version, ClientIp(s))
     IN  IF CanUndo(drawings_by_ip, ClientIp(s))
         THEN /\ drawing_state' = c.ds
              /\ drawings_by_ip' = c.by
              /\ state_version' = c.ver
              /\ assigned' = Append(assigned, c.ver)
              /\ committed' = Append(committed, Action("undo", c.ver, ClientIp(s)))
              /\ alive' = DropLastOf(alive, ClientIp(s))
              /\ \E r \in FanOut(s, R0, StartIter(R0.ac), {}, Msg("undo", c.ver, <<>>)) :
                   /\ handler' = [handler EXCEPT ![s] = r.h]
                   /\ SetReg(r.R)
                   /\ ev' = Event("undo", s, None, TRUE, r.to)
         ELSE /\ \E r \in UndoNothing(s, R0) :
                   /\ handler' = [handler EXCEPT ![s] = r.h]
                   /\ SetReg(r.R)
              /\ ev' = Event("undo_noop", s, None, TRUE, None)
              /\ UNCHANGED <<drawing_state, drawings_by_ip, state_version, assigned,
                             committed, alive>>
  /\ UNCHANGED <<max_drawings, now, periodic, model_vars, heartbeat, evicted_upto>>

InitCompressing == InitServer(MaxDrawingsLarge, 0, "A", MaxCompressCommits)

NextCompressing ==
  \E s \in Sessions :
    \/ Connect(s)
    \/ \E ok \in BOOLEAN : ConnectSendDone(s, ok)
    \/ \E points \in CompressStrokes : \E due \in BOOLEAN : CompressingRecvDraw(s, points, due)
    \/ CompressingRecvUndo(s)
    \/ \E ok \in BOOLEAN : FanSendDone(s, ok)
    \/ Disconnect(s)

SpecCompressing == InitCompressing /\ [][NextCompressing]_vars

\* decode_draw_message alone, on byte strings a client can send: every
\* prefix of the frame of a draw, with the tag byte replaced by any of
\* DecodeTags
DecodeTags == {0, 1, 2, 3, 4, 255}
DecodeVersions == {1, 258}

DecodeFrames ==
  {[tag |-> t, version |-> v, declared |-> Len(ps),
    frame |-> [EncodeDraw(v, [type |-> "draw", version |-> v,
                               color |-> <<"#", "f", "f", "0", "0", "0", "0">>,
                               width |-> 1, points |-> ps]) EXCEPT ![1] = t]]
     : t \in DecodeTags, v \in DecodeVersions, ps \in CodecStrokes}

InitDecode ==
  /\ ServerAt(MaxDrawingsLarge, 0, "A", 0)
  /\ call \in UNION {{[fn |-> "bytes", tag |-> f.tag, version |-> f.version,
                       declared |-> f.declared, arg |-> SubSeq(f.frame, 1, n)]
                        : n \in 0..Len(f.frame)} : f \in DecodeFrames}

\* msg = decode_draw_message(data["bytes"])
Decode ==
  /\ call.fn = "bytes"
  /\ call' = [fn |-> "decoded_bytes", tag |-> call.tag, version |-> call.version,
              declared |-> call.declared, arg |-> call.arg,
              raised |-> HeaderRaises(call.arg),
              ret |-> IF HeaderRaises(call.arg) THEN EmptyDict
                      ELSE decode_draw_message(call.arg)]
  /\ UNCHANGED <<server_vars, registry_vars, now, task_vars, commit_cap, history_vars>>

NextDecode == Decode

SpecDecode == InitDecode /\ [][NextDecode]_vars

\* the two background tasks as the event loop runs them: a task that is
\* ready to wake or whose send has completed is resumed
FairLoops ==
  /\ FairProbe
  /\ WF_vars(HeartbeatWake)
  /\ WF_vars(\E ok \in BOOLEAN : HeartbeatSendDone(ok))

SpecLoops == InitProbe /\ [][NextProbe]_vars /\ FairLoops

\* ------------------------------------------------------------------ claims
StackOf(by, ip) == IF ip \in DOMAIN by THEN by[ip] ELSE <<>>
IsUndo(e) == e.op \in {"undo", "undo_noop"}
Ascending(seq) == \A i \in 1..(Len(seq) - 1) : seq[i].version < seq[i + 1].version
OfOrigin(seq, ip) == SelectSeq(seq, LAMBDA d : d.client_ip = ip)
Without(seq, x) == SelectSeq(seq, LAMBDA d : d # x)
LastN(seq, n) == SubSeq(seq, Len(seq) - n + 1, Len(seq))
Min(a, b) == IF a < b THEN a ELSE b

\* C1: the versions assigned to committed actions are 1, 2, 3, ... in commit
\* order, without gap or repeat, whichever handlers commit and in whatever
\* order; an undo of an origin whose stack is empty assigns no version.
C1_VersionsSequential ==
  /\ [](/\ assigned = [i \in 1..Len(assigned) |-> i]
        /\ state_version = Len(assigned)
        /\ Len(committed) = Len(assigned)
        /\ \A i \in 1..Len(committed) : committed[i].version = i)
  /\ [][(IsUndo(ev') /\ StackOf(drawings_by_ip, ClientIp(ev'.who)) = <<>>)
          => (state_version' = state_version /\ assigned' = assigned)]_vars

C1_Witness ==
  /\ ev.op = "undo_noop"
  /\ Len(assigned) >= 3
  /\ {committed[i].client_ip : i \in 1..Len(committed)} = {"A", "B"}

\* C2: an undo from one origin removes no drawing of another origin from the
\* log or from a stack, also when the other origin's drawing is the newest
\* entry; the only entry it can remove is its own newest live draw.
C2_UndoScoped ==
  [][IsUndo(ev') =>
       LET ip == ClientIp(ev'.who)
       IN  /\ \A d \in Elems(drawing_state) :
                d.client_ip # ip => d \in Elems(drawing_state')
           /\ \A o \in IPs \ {ip} :
                StackOf(drawings_by_ip', o) = StackOf(drawings_by_ip, o)
           /\ \A d \in Elems(drawing_state) \ Elems(drawing_state') :
                OfOrigin(alive, ip) # <<>> /\ d = Last(OfOrigin(alive, ip))]_vars

C2_Witness ==
  /\ ev.op = "undo"
  /\ drawing_state # <<>>
  /\ Last(drawing_state).client_ip # ClientIp(ev.who)
  /\ Last(drawing_state).version = state_version - 1

\* C3: an undo of an origin whose stack is not empty pops the top of that
\* stack, removes that action and no other from the log, and advances the
\* version by one.
C3_UndoPopsTop ==
  [][(IsUndo(ev') /\ StackOf(drawings_by_ip, ClientIp(ev'.who)) # <<>>) =>
       LET ip == ClientIp(ev'.who)
           top == Last(drawings_by_ip[ip])
       IN  /\ ip \in DOMAIN drawings_by_ip'
           /\ drawings_by_ip'[ip] = Front(drawings_by_ip[ip])
           /\ top \in Elems(drawing_state)
           /\ drawing_state' = Without(drawing_state, top)
           /\ Len(drawing_state') = Len(drawing_state) - 1
           /\ state_version' = state_version + 1]_vars

\* A's draws v1, v2, v3 and then A's undo
C3_Witness ==
  /\ ev.op = "undo"
  /\ ClientIp(ev.who) = "A"
  /\ committed = <<Draw(1, "A"), Draw(2, "A"), Draw(3, "A"), Action("undo", 4, "A")>>
  /\ drawing_state = <<Draw(1, "A"), Draw(2, "A")>>
  /\ drawings_by_ip["A"] = <<Draw(1, "A"), Draw(2, "A")>>
  /\ state_version = 4

\* C4: an undo of an origin whose stack is empty or absent changes neither
\* the version, the log, a stack nor an acknowledged version, and no send is
\* started by it.
C4_EmptyUndoNoop ==
  [][(IsUndo(ev') /\ StackOf(drawings_by_ip, ClientIp(ev'.who)) = <<>>) =>
       /\ UNCHANGED <<state_version, drawing_state, drawings_by_ip, client_versions>>
       /\ UNCHANGED <<handler, periodic>>]_vars

C4_Witness ==
  /\ ev.op = "undo_noop"
  /\ ClientIp(ev.who) \in DOMAIN drawings_by_ip
  /\ drawing_state # <<>>
  /\ Registered(active_connections) = Sessions

\* C5: a clear empties the log and every stack and advances the version by
\* one; a connection accepted afterwards is sent a state message with the
\* log and the version of that moment.
C5_ClearEmpties ==
  /\ [][ev'.op = "clear" =>
          /\ drawing_state' = <<>>
          /\ \A ip \in IPs : StackOf(drawings_by_ip', ip) = <<>>
          /\ state_version' = state_version + 1]_vars
  /\ [][ev'.op = "connect" =>
          handler'[ev'.who].inflight = Msg("state", state_version, drawing_state)]_vars

\* Draw (v1), Draw (v2), Clear (v3), and a connection is sent state{[], 3}
C5_Witness ==
  /\ ev.op = "connect"
  /\ Len(committed) = 3
  /\ committed[1].type = "draw" /\ committed[2].type = "draw" /\ committed[3].type = "clear"
  /\ handler[ev.who].inflight = Msg("state", 3, <<>>)

\* C6 as stated: the log never exceeds max_drawings and holds exactly the
\* newest max_drawings draws that were neither undone nor cleared.
C6_NewestLiveDraws ==
  /\ Len(drawing_state) <= max_drawings
  /\ drawing_state = LastN(alive, Min(max_drawings, Len(alive)))

\* C6 as amended: the log never exceeds max_drawings and is in ascending
\* version order; it holds exactly the live draws newer than the newest
\* entry pruned so far, and a draw keeps the newest max_drawings entries of
\* the log with the new draw appended.
C6_LogCapacity ==
  /\ [](/\ Len(drawing_state) <= max_drawings
        /\ Ascending(drawing_state)
        /\ drawing_state = SelectSeq(alive, LAMBDA d : d.version > evicted_upto))
  /\ [][ev'.op = "draw" =>
          LET full == Append(drawing_state, Draw(state_version + 1, ClientIp(ev'.who)))
          IN  drawing_state' = LastN(full, Min(max_drawings, Len(full)))]_vars

C6_Witness ==
  /\ ev.op = "undo"
  /\ evicted_upto > 0
  /\ Len(drawing_state) < max_drawings
  /\ Len(alive) > Len(drawing_state)

\* C7: each origin's stack is that origin's draws still in the log, in
\* commit order, so the top of a stack is always in the log.
C7_StacksMatchLog ==
  /\ \A ip \in IPs : StackOf(drawings_by_ip, ip) = OfOrigin(drawing_state, ip)
  /\ DOMAIN drawings_by_ip \subseteq IPs

C7_Witness ==
  /\ ev.op = "undo"
  /\ evicted_upto > 0
  /\ \E ip \in IPs : StackOf(drawings_by_ip, ip) # <<>>
  /\ \E d \in Elems(alive) : d.version <= evicted_upto /\ d.client_ip = ClientIp(ev.who)

\* C8: a reconciliation for a connection at version V sends the log entries
\* newer than V in an updates message when they are fewer than 10, otherwise
\* the whole log in a state message; either carries the current version.  V
\* is the acknowledged version in the sweep and the reported version in the
\* answer to a sync request.
C8_Decision(m, V) ==
  LET missing == SelectSeq(drawing_state', LAMBDA a : a.version > V)
  IN  /\ m.version = state_version'
      /\ Len(missing) < 10 => (m.type = "updates" /\ m.actions = missing)
      /\ Len(missing) >= 10 => (m.type = "state" /\ m.actions = drawing_state')

C8_ReconciliationDecision ==
  [][/\ (ev'.op = "sweep" /\ periodic'.pc = "sync")
          => C8_Decision(periodic'.inflight, client_versions'[periodic'.cur])
     /\ (ev'.op = "sync_request" /\ handler'[ev'.who].pc = "reply")
          => C8_Decision(handler'[ev'.who].inflight, handler'[ev'.who].V)]_vars

\* a connection at 13 of 15 is answered with the two newer actions while
\* the sweep sends the whole log of 15 to a connection at 0
C8_Witness ==
  /\ state_version = 15
  /\ \E s \in Sessions :
       /\ handler[s].pc = "reply"
       /\ handler[s].V = 13
       /\ handler[s].inflight = Msg("updates", 15, <<Draw(14, "B"), Draw(15, "A")>>)
  /\ periodic.pc = "sync"
  /\ client_versions[periodic.cur] = 0
  /\ periodic.inflight = Msg("state", 15, drawing_state)

\* C9: when a send of the sweep to a connection acknowledged at V succeeds,
\* the acknowledged version becomes the version C the message carries, and
\* the message held either exactly the actions committed with versions in
\* (V, C], clears and undos among them, or the whole log as it is now, also
\* when a handler has committed during the send.
C9_ReconciliationExact ==
  [][(periodic.pc = "sync" /\ ev'.op = "sweep" /\ ev'.who = "periodic" /\ ev'.ok /\ periodic' # periodic) =>
       LET m == periodic.inflight
           V == periodic.V
           C == m.version
       IN  /\ client_versions'[periodic.cur] = C
           /\ \/ /\ m.type = "updates"
                 /\ m.actions = SelectSeq(committed, LAMBDA a : a.version > V /\ a.version <= C)
              \/ /\ m.type = "state"
                 /\ m.actions = drawing_state]_vars

\* C10: with the sweep scheduled fairly and its sends to a connection not
\* failing for ever, a registered connection whose acknowledged version
\* differs from the current version is brought to the current version, or
\* is unregistered; commits stop at the commit bound.
C10_SweepConverges ==
  \A s \in Sessions :
    (s \in Registered(active_connections) /\ s \in DOMAIN client_versions
       /\ client_versions[s] # state_version)
    ~> (s \notin Registered(active_connections)
          \/ (s \in DOMAIN client_versions /\ client_versions[s] = state_version))

\* the connection that sent the last commit, which the fan-out skipped, has
\* been brought to the current version by the sweep
C10_Witness ==
  /\ state_version = commit_cap
  /\ ev.op = "sweep" /\ ev.ok
  /\ Last(committed).type = "draw"
  /\ \E s \in Registered(active_connections) :
       /\ ClientIp(s) = Last(committed).client_ip
       /\ handler[s].pc = "recv"
       /\ client_versions[s] = state_version

\* the sends a step hands to the transport, as pairs of receiver and message
Sending == {"connect", "bcast", "bsu", "reply", "pong"}
StartsSend(s) ==
  /\ handler'[s].pc \in Sending
  /\ handler'[s].pc # handler[s].pc \/ handler'[s].it # handler[s].it
InFanOut(h) == h.pc \in {"bcast", "bsu"} /\ IsBinary(h.msg)
IsCommit(e) == e.op \in {"draw", "clear", "undo"}

\* C11: no commit is applied between the version assignment of another
\* action and the end of that action's fan-out: a handler commits only while
\* no other handler is inside the fan-out of a committed action.
C11_CommitFanOutAtomic ==
  [][IsCommit(ev') =>
       \A s \in Sessions \ {ev'.who} : ~InFanOut(handler[s])]_vars

\* C12: the fan-out of a committed draw, clear or undo sends to the other
\* registered connections only: some other registered connection is sent
\* the action when there is one, and no send of the commit goes to the
\* connection that submitted it.
C12_SenderSkipped ==
  [][\A s \in Sessions :
       /\ (StartsSend(s) /\ InFanOut(handler'[s])) => handler'[s].cur # s
       /\ (IsCommit(ev') /\ ev'.who = s /\ Registered(active_connections) \ {s} # {})
            => (StartsSend(s) /\ InFanOut(handler'[s]))]_vars

\* C13: a send of a fan-out that fails neither ends the pass nor the request
\* that caused it: the pass goes on to the next connection or completes, and
\* when it completes every connection whose send failed is unregistered, and
\* the connection whose send returned is registered when it returns.
C13_FailureIsolated ==
  [][\A s \in Sessions :
       (handler[s].pc \in {"bcast", "bsu"} /\ ev'.op = "send_done" /\ ev'.who = s) =>
         /\ ~ev'.ok =>
              /\ handler'[s].pc \in {"bcast", "bsu", "recv"}
              /\ handler'[s].pc = "recv" =>
                   (handler[s].failed \cup {handler[s].cur})
                     \cap Registered(active_connections') = {}
         /\ ev'.ok => handler[s].cur \in Registered(active_connections')]_vars

\* C14: unregistering a connection that is not registered raises no error
\* and leaves the registry as it is: the handler of a connection that a
\* fan-out has already evicted ends normally when it sees the disconnect.
C14_UnregisterIdempotent ==
  [][(ev'.op = "disconnect" /\ ev'.who \notin Registered(active_connections)) =>
       /\ handler'[ev'.who].pc = "closed"
       /\ UNCHANGED registry_vars]_vars

\* C16: a binary frame that cannot be decoded is dropped: no commit, no
\* version change, no message to any connection, and the connection that
\* sent it stays registered.
C16_UndecodableDropped ==
  [][ev'.op = "undecodable" =>
       /\ UNCHANGED server_vars
       /\ \A s \in Sessions : ~StartsSend(s)
       /\ ev'.who \in Registered(active_connections)
            => ev'.who \in Registered(active_connections')]_vars

\* C17: after a draw commit the stored log entry and the frame sent for the
\* draw hold the stroke as visvalingam_whyatt leaves it, which is at most
\* max_points_per_drawing points.
C17_StrokeCapped ==
  [][ev'.op = "draw" =>
       /\ drawing_state' # <<>>
       /\ Last(drawing_state').points <= MaxPointsPerDrawing
       /\ \E n \in PointCounts :
            Last(drawing_state').points = SimplifiedLength(n, MaxPointsPerDrawing)
       /\ StartsSend(ev'.who) =>
            \A a \in Elems(handler'[ev'.who].inflight.actions) :
              a.points <= MaxPointsPerDrawing]_vars

\* C18: a state_request or state_version_check is answered with at most one
\* message, to the connection that sent it; nothing is sent to another
\* connection, and the log, the version, the stacks and the acknowledged
\* versions of the other connections stay as they are, when the request is
\* taken in and when the send of the answer ends.
OthersKeepAck(s) ==
  \A c \in Sessions \ {s} :
    /\ c \in DOMAIN client_versions <=> c \in DOMAIN client_versions'
    /\ c \in DOMAIN client_versions => client_versions'[c] = client_versions[c]

C18_SyncRequestLocal ==
  [][\A s \in Sessions :
       /\ (ev'.op = "sync_request" /\ ev'.who = s) =>
            /\ UNCHANGED <<server_vars, periodic>>
            /\ OthersKeepAck(s)
            /\ \A h \in Sessions :
                 StartsSend(h) => (h = s /\ handler'[s].pc = "reply" /\ handler'[s].cur = s)
       /\ (handler[s].pc = "reply" /\ ev'.op = "send_done" /\ ev'.who = s) =>
            /\ UNCHANGED <<server_vars, periodic>>
            /\ OthersKeepAck(s)
            /\ \A h \in Sessions : ~StartsSend(h)]_vars

\* a request has been answered and the other connection is behind
C18_Witness ==
  /\ ev.op = "sync_request"
  /\ handler[ev.who].pc = "reply"
  /\ handler[ev.who].inflight.type = "updates"
  /\ \E c \in Registered(active_connections) \ {ev.who} :
       /\ handler[c].pc = "recv"
       /\ client_versions[c] < state_version

\* the sends that the two background tasks hand to the transport in a step
SweepStartsSend ==
  /\ periodic'.pc \in {"probe", "sync"}
  /\ periodic'.pc # periodic.pc \/ periodic'.it # periodic.it
HeartbeatStartsSend ==
  /\ heartbeat'.pc = "beat"
  /\ heartbeat'.pc # heartbeat.pc \/ heartbeat'.it # heartbeat.it
SentTo(c) ==
  \/ \E h \in Sessions : StartsSend(h) /\ handler'[h].cur = c
  \/ SweepStartsSend /\ periodic'.cur = c
  \/ HeartbeatStartsSend /\ heartbeat'.cur = c

\* C15: the first message handed to a newly accepted connection is the state
\* message with the log and the version of that moment: the step that
\* registers the connection starts that send, and every frame of a fan-out,
\* updates message, heartbeat or probe to the connection is started by a
\* later step, also while the snapshot send is still suspended.
C15_SnapshotFirst ==
  [][\A c \in Sessions :
       /\ (handler[c].pc = "new" /\ handler'[c].pc # "new") =>
            /\ handler'[c].pc = "connect" /\ handler'[c].cur = c
            /\ handler'[c].inflight.type = "state"
            /\ handler'[c].inflight.actions = drawing_state
            /\ handler'[c].inflight.version = state_version
            /\ \A h \in Sessions \ {c} : ~(StartsSend(h) /\ handler'[h].cur = c)
            /\ ~(SweepStartsSend /\ periodic'.cur = c)
            /\ ~(HeartbeatStartsSend /\ heartbeat'.cur = c)
       /\ (handler[c].pc = "new" /\ handler'[c].pc = "new") => ~SentTo(c)
       /\ c \in Registered(active_connections) => handler[c].pc # "new"]_vars

\* the frame of a draw and a heartbeat are on their way to a connection
\* whose snapshot send is still suspended
C15_Witness ==
  \E c \in Sessions :
    /\ handler[c].pc = "connect"
    /\ \E h \in Sessions \ {c} :
         handler[h].pc = "bcast" /\ handler[h].cur = c /\ handler[h].msg.type = "draw"
    /\ heartbeat.pc = "beat" /\ heartbeat.cur = c

\* C19: the liveness sweep probes a connection only when it was last seen
\* more than 30 ago; when the sweep's loop has ended every connection whose
\* probe failed is unregistered; a connection whose probe returned stays
\* registered, and while it stays stale the next sweep probes again.
LastSeen(c) == IF c \in DOMAIN last_ping_times THEN last_ping_times[c] ELSE 0

C19_ProbeSweep ==
  [][/\ (SweepStartsSend /\ periodic'.pc = "probe") =>
          now - LastSeen(periodic'.cur) > 30
     /\ (periodic.pc = "probe" /\ periodic'.pc # "probe") =>
          (periodic.failed \cup (IF ev'.ok THEN {} ELSE {periodic.cur}))
            \cap Registered(active_connections') = {}
     /\ (periodic.pc = "probe" /\ periodic' # periodic /\ ev'.ok
           /\ periodic.cur \in Registered(active_connections)) =>
          periodic.cur \in Registered(active_connections')
     /\ (periodic.pc = "sleep" /\ periodic' # periodic
           /\ \E c \in Registered(active_connections) : now - LastSeen(c) > 30) =>
          periodic'.pc = "probe"]_vars

\* C20: with the liveness sweep scheduled fairly, a registered connection
\* that has been silent for more than 30 is unregistered in the end, unless a
\* message from it arrives, and this also when the probes sent to it return.
C20_SilentEvicted ==
  \A c \in Sessions :
    (c \in Registered(active_connections) /\ now - LastSeen(c) > 30)
      ~> (c \notin Registered(active_connections) \/ now - LastSeen(c) <= 30)

\* C21: a connection request under a role other than draw or display is
\* closed with code 1003 before any registration: the step leaves the two
\* partitions, the two tracking maps, the log, the version and the stacks as
\* they are and starts no send, and a rejected connection is never in a
\* partition or a tracking map afterwards.
C21_InvalidRoleRejected ==
  /\ [](\A s \in Sessions :
          handler[s].pc = "rejected" =>
            /\ handler[s].inflight = [type |-> "close", code |-> 1003]
            /\ s \notin Registered(active_connections)
            /\ s \notin DOMAIN client_versions
            /\ s \notin DOMAIN last_ping_times)
  /\ [][ev'.op = "reject" =>
          /\ handler'[ev'.who].pc = "rejected"
          /\ UNCHANGED <<server_vars, registry_vars>>
          /\ \A c \in Sessions : ~SentTo(c)]_vars

\* a role was rejected while the other connection is registered and the log
\* holds a draw that a snapshot would carry
C21_Witness ==
  /\ ev.op = "reject"
  /\ handler[ev.who].pc = "rejected"
  /\ Registered(active_connections) # {}
  /\ drawing_state # <<>>

\* C22: a ping is answered with one pong to the connection that sent it,
\* with the timestamp of the ping; a pong is answered with nothing. Neither,
\* and not the end of the pong's send, changes the log, the version, the
\* stacks or an acknowledged version of another connection, and neither
\* sends to another connection.
C22_PingPongLocal ==
  [][\A s \in Sessions :
       /\ (ev'.op = "ping" /\ ev'.who = s) =>
            /\ UNCHANGED <<server_vars, active_connections, client_versions>>
            /\ handler'[s].pc = "pong"
            /\ handler'[s].cur = s
            /\ handler'[s].inflight.type = "pong"
            /\ handler'[s].msg.timestamp # NoStamp =>
                 handler'[s].inflight.timestamp = handler'[s].msg.timestamp
            /\ \A c \in Sessions \ {s} : ~SentTo(c)
       /\ (handler[s].pc = "pong" /\ ev'.op = "send_done" /\ ev'.who = s) =>
            /\ UNCHANGED server_vars
            /\ OthersKeepAck(s)
            /\ \A c \in Sessions : ~SentTo(c)
            /\ ev'.ok => (handler'[s].pc = "recv" /\ UNCHANGED registry_vars)
       /\ (ev'.op = "pong" /\ ev'.who = s) =>
            /\ UNCHANGED <<server_vars, active_connections, client_versions, handler>>
            /\ \A c \in Sessions : ~SentTo(c)]_vars

\* a pong has come in from one connection while the answer to the other's
\* ping, stamped by the client at another instant than the server's, is on
\* its way, with a draw in the log
C22_Witness ==
  /\ ev.op = "pong"
  /\ \E s \in Sessions \ {ev.who} :
       /\ handler[s].pc = "pong"
       /\ handler[s].inflight.timestamp = 5
       /\ now # 5
  /\ drawing_state # <<>>

\* C30: a draw is committed and fanned out together or not at all: a draw
\* that cannot be packed into a frame leaves the log, the version and the
\* stacks as they are, and the connection that sent it stays registered.
C30_CommitEncodeAtomic ==
  [][ev'.op = "unencodable" =>
       /\ UNCHANGED server_vars
       /\ ev'.who \in Registered(active_connections)
            => ev'.who \in Registered(active_connections')]_vars

\* C23: the fan-out of a message whose type is not draw, clear or undo (the
\* new-client notice of a draw client, a frame of no known type) writes
\* neither the log, the version, the stacks nor an acknowledged version, and
\* hands the message to the registered connections other than the sender:
\* the step that begins it starts a send to another registered connection
\* when there is one, and no step of it sends to the sender.
BeginsPassthrough(s) ==
  /\ ev'.who = s
  /\ \/ handler[s].pc = "connect" /\ ev'.op = "send_done" /\ ev'.ok /\ ClientTypeOf(s) = "draw"
     \/ handler[s].pc = "recv" /\ ev'.op = "undecodable"
ContinuesPassthrough(s) ==
  /\ ev'.who = s
  /\ handler[s].pc = "bcast"
  /\ handler[s].msg.type \in {"new-client", "empty"}
  /\ ev'.op = "send_done"

SixDigits(color) == Len(color) = 7
ColorValue(color) == ParseHex(LStrip(color))
NearSingle(x, y) ==
  /\ Abs(x - y) * 16777216 <= Abs(x)
  /\ Abs(x) <= 16777216 => y = x

C24_CodecRoundTrip ==
  (call.fn = "decoded" /\ call.cut = 0 /\ SixDigits(call.arg.color)) =>
    /\ call.ret.type = "draw"
    /\ call.ret.version = call.arg.version
    /\ ColorValue(call.ret.color) = ColorValue(call.arg.color)
    /\ SixDigits(call.ret.color)
    /\ NearSingle(call.arg.width, call.ret.width)
    /\ Len(call.ret.points) = Len(call.arg.points)
    /\ \A i \in 1..Len(call.arg.points) :
         /\ NearSingle(call.arg.points[i].x, call.ret.points[i].x)
         /\ NearSingle(call.arg.points[i].y, call.ret.points[i].y)

\* a stroke of two different points, one of them with coordinates that no
\* single holds, a color with leading zero digits and a version of more than
\* one byte has gone through the codec
C24_Witness ==
  /\ call.fn = "decoded"
  /\ call.cut = 0
  /\ call.arg.version = 258
  /\ call.arg.color = <<"#", "0", "0", "f", "f", "7", "f">>
  /\ Len(call.arg.points) = 2
  /\ call.arg.points[1] # call.arg.points[2]
  /\ call.ret.points[2].x = 16777216
  /\ call.arg.points[2].x = 16777217

\* C25: visvalingam_whyatt returns a subsequence of its input with the first
\* and the last point kept and no more points than the cap, for every stroke
\* and every cap, and returns a stroke of no more points than the cap as it
\* is.
RECURSIVE IsSubsequence(_, _)
IsSubsequence(a, b) ==
  IF a = <<>> THEN TRUE
  ELSE IF b = <<>> THEN FALSE
  ELSE IF Head(a) = Head(b) THEN IsSubsequence(Tail(a), Tail(b))
  ELSE IsSubsequence(a, Tail(b))

Simplified(points, num_to_keep, ret) ==
  /\ ~ret.raised
  /\ IsSubsequence(ret.points, points)
  /\ points # <<>> =>
       /\ ret.points # <<>>
       /\ Head(ret.points) = Head(points)
       /\ Last(ret.points) = Last(points)
  /\ Len(ret.points) <= num_to_keep
  /\ Len(points) <= num_to_keep => ret.points = points

C25_SimplifyAnyCap ==
  call.fn = "simplified" =>
    Simplified(call.arg.points, call.arg.num_to_keep, call.ret)

\* C25, amended to the caps that leave room for the two end points: for
\* every stroke and every cap of at least 2 the result is a subsequence of
\* the input with the first and the last point kept and no more points than
\* the cap, and a stroke of no more points than the cap (any cap) comes back
\* as it is.
C25_SimplifyCapTwo ==
  (call.fn = "simplified"
     /\ (call.arg.num_to_keep >= 2 \/ Len(call.arg.points) <= call.arg.num_to_keep)) =>
    Simplified(call.arg.points, call.arg.num_to_keep, call.ret)

\* a stroke of five points, not all on one line, has been cut down to two
C25_Witness ==
  /\ call.fn = "simplified"
  /\ Len(call.arg.points) = 5
  /\ call.arg.num_to_keep = 2
  /\ Len(call.ret.points) = 2
  /\ \E i \in 2..4 :
       triangle_area(call.arg.points[i - 1], call.arg.points[i], call.arg.points[i + 1]) > 0

\* C26: every state or updates message (the snapshot of connect, the
\* messages of the sweep, the answer to a request, the state update forced
\* by an undo) carries the log and the version of one instant: no message is
\* handed to a send with an action in its list whose version is greater than
\* the version the message carries, also when another handler commits while
\* the message is being sent to one connection after the other.
Coherent(m) ==
  m.type \in {"state", "updates"} =>
    \A i \in 1..Len(m.actions) : m.actions[i].version <= m.version

C26_MessageOfOneInstant ==
  [][/\ \A s \in Sessions : StartsSend(s) => Coherent(handler'[s].inflight)
     /\ SweepStartsSend => Coherent(periodic'.inflight)]_vars

\* C27: for every registered connection with acknowledged version A, every
\* action in the log with a version of at most A was submitted by that
\* connection or was in a message handed to a send for it: the acknowledged
\* version is never set beyond what the connection was sent, also when other
\* handlers commit while a send to it is suspended.
C27_AckWithinSent ==
  ev.rec =>
    \A c \in Registered(active_connections) \cap DOMAIN client_versions :
      \A i \in 1..Len(drawing_state) :
        drawing_state[i].version <= client_versions[c]
          => drawing_state[i].version \in ev.seen[c]

\* C28: a fan-out that is suspended in a send while another connection
\* connects, disconnects or is evicted goes on when the send ends: the loop
\* moves to the next send or returns normally, on return the connections
\* whose send failed are unregistered, and the connection that submitted
\* the message is not unregistered by its own fan-out.
C28_FanOutSurvivesChurn ==
  [][\A s \in DOMAIN handler :
       (handler[s].pc = "bcast" /\ ev'.op = "send_done" /\ ev'.who = s) =>
         /\ handler'[s].pc \in {"bcast", "recv"}
         /\ s \in Registered(active_connections) => s \in Registered(active_connections')
         /\ handler'[s].pc = "recv" =>
              \A c \in handler[s].failed : c \notin Registered(active_connections')]_vars

\* C29: the keys of client_versions, the keys of last_ping_times and the
\* union of the two partitions are the same set in every reachable state:
\* a connection that has been unregistered has no entry in a tracking map,
\* also when a send to it or a message from it completes after the removal.
C29_RegistryKeysAgree ==
  /\ DOMAIN client_versions = Registered(active_connections)
  /\ DOMAIN last_ping_times = Registered(active_connections)

\* C31: a connection whose connect-time snapshot carried version C counts as
\* up to date at C: once the send of the snapshot has returned, the
\* reconciliation sweep starts a send of an updates or state message to it
\* only when a commit has taken the version beyond C.
C31_SnapshotCountsAsSync ==
  [][(ev.rec /\ SweepStartsSend /\ periodic'.pc = "sync"
        /\ handler[periodic'.cur].pc # "connect") =>
       state_version > ev.snap[periodic'.cur]]_vars

\* C33: compress_drawing of src/main.py, given a draw with more points than
\* max_points_per_drawing, returns without raising a draw whose points are a
\* subsequence of the input's that begins with its first point, ends with
\* its last point and has at most max_points_per_drawing points; given a
\* draw at or below the cap, or an action that is not a draw, it returns
\* its argument as it is.
OverCap(d, cap) == d.type = "draw" /\ "points" \in DOMAIN d /\ Len(d.points) > cap

C33_CompressWithinCap ==
  call.fn = "compressed" =>
    LET d == call.arg.drawing
        cap == call.arg.cap
    IN  /\ ~call.ret.raised
        /\ OverCap(d, cap) =>
             /\ IsSubsequence(call.ret.value.points, d.points)
             /\ Head(call.ret.value.points) = Head(d.points)
             /\ Last(call.ret.value.points) = Last(d.points)
             /\ Len(call.ret.value.points) <= cap
        /\ ~OverCap(d, cap) => call.ret.value = d

\* C32: in src/main.py an undo that consumes a version takes exactly one
\* entry out of the log, the most recent draw of the origin that undoes,
\* also when that draw is in the log in its compressed form and after the
\* compression pass has replaced the entries of the log.
C32_CompressedUndoShrinks ==
  [][ev'.op = "undo" =>
       /\ Len(drawing_state') = Len(drawing_state) - 1
       /\ drawing_state' = DropLastOf(drawing_state, ClientIp(ev'.who))]_vars


\* C34: decode_draw_message never raises. A byte string shorter than the 5
\* bytes of the header, one with a tag other than 1, 2 and 3, and one with
\* tag 1 whose body ends before the declared number of points, all give the
\* empty result; tags 2 and 3 give clear and undo with the version of the
\* header, whatever bytes follow the header.
C34_DecodeNeverRaises ==
  call.fn = "decoded_bytes" =>
    /\ ~call.raised
    /\ Len(call.arg) < 5 => call.ret = EmptyDict
    /\ (Len(call.arg) >= 5 /\ call.tag \notin {1, 2, 3}) => call.ret = EmptyDict
    /\ (call.tag = 1 /\ Len(call.arg) < 17 + 8 * call.declared) => call.ret = EmptyDict
    /\ (Len(call.arg) >= 5 /\ call.tag = 2) =>
         call.ret = [type |-> "clear", version |-> call.version]
    /\ (Len(call.arg) >= 5 /\ call.tag = 3) =>
         call.ret = [type |-> "undo", version |-> call.version]

\* an undo frame followed by further bytes has been decoded
C34_Witness ==
  /\ call.fn = "decoded_bytes"
  /\ call.tag = 3
  /\ Len(call.arg) > 5
  /\ call.ret.type = "undo"


\* C35: an exception raised inside one iteration of the periodic sweep loop
\* or of the heartbeat loop ends that iteration only: neither loop ever
\* terminates, after a sweep that raised the loop goes through its next
\* iteration (it probes or reconciles again, or finds nothing to do), a
\* heartbeat iteration runs to its sleep whatever sends fail, and a failed
\* heartbeat send unregisters no connection.
SweepFindsNothing ==
  /\ periodic.pc = "sleep"
  /\ \A c \in Registered(active_connections) :
       /\ ~Stale(c, last_ping_times, now)
       /\ ~NeedsSync(c, client_versions, state_version)

C35_LoopsContainExceptions ==
  /\ [](periodic.pc \in {"sleep", "probe", "sync"} /\ heartbeat.pc \in {"sleep", "beat"})
  /\ (ev.op = "sweep_raised") ~> (ev.op \in {"probe", "sweep"} \/ SweepFindsNothing)
  /\ (heartbeat.pc = "beat") ~> (heartbeat.pc = "sleep")
  /\ [][(ev'.op = "heartbeat" /\ ~ev'.ok) =>
          /\ active_connections' = active_connections
          /\ client_versions' = client_versions
          /\ last_ping_times' = last_ping_times]_vars

\* disconnect has raised inside the liveness sweep
C35_Witness == ev.op = "sweep_raised" /\ periodic.pc = "sleep"

====
